---- MODULE Spec2Model ----
(***************************************************************************)
(* A model of the resilience layer of ai_mock_interview: the voice guard   *)
(* of src/lib/vapi.sdk.ts (call interceptor, global error hooks, handle    *)
(* lifecycle) and the call start of src/components/Agent.tsx.              *)
(*                                                                         *)
(* Text is modelled as a sequence of words; String.prototype.includes is   *)
(* the search for a contiguous run of words, join(" ") is concatenation.   *)
(***************************************************************************)
EXTENDS Integers, Sequences, FiniteSets, TLC

\* ------------------------------------------------------------------ bounds
MaxMsgLen == 3
MaxEvals == 3
MaxTimers == 3
MaxTime == 3000
TickMs == 1000
CallTickMs == 2500
MaxScript == 1
MaxCallTime == 10000
MaxCalls == 1
MaxSubmits == 1
AuthTickMs == 2000
MaxAuthTime == 16000
MaxAgentCalls == 2
MaxSessions == 1
MaxFragments == 2
AgentTickMs == 5000
MaxAgentTime == 6000

\* ------------------------------------------------------- program constants
ResetDelayMs == 1000
FeedbackDelayMs == 100
StartTimeoutMs == 10000
CallInitTimeoutMs == 5000
ComponentResetDelayMs == 2000

\* -------------------------------------------------------------------- text
Words == {"Meeting", "has", "ended", "meeting", "not"}

Messages == UNION {[1..n -> Words] : n \in 0..MaxMsgLen}

\* String.prototype.includes: needle occurs in hay as a contiguous run
Includes(hay, needle) ==
    \E i \in 0..(Len(hay) - Len(needle)) :
        \A j \in 1..Len(needle) : hay[i + j] = needle[j]

PhraseHasEnded == <<"Meeting", "has", "ended">>
PhraseEnded == <<"Meeting", "ended">>

\* message.includes("Meeting has ended") || message.includes("Meeting ended")
IsMeetingEndedText(text) ==
    Includes(text, PhraseHasEnded) \/ Includes(text, PhraseEnded)

\* An error value.  truthy: not null/undefined; isError: an Error object;
\* msgIsString: typeof error.message === "string".
MkError(m) == [truthy |-> TRUE, isError |-> TRUE, msgIsString |-> TRUE, message |-> m]
NullError == [truthy |-> FALSE, isError |-> FALSE, msgIsString |-> FALSE, message |-> <<>>]
PlainObject == [truthy |-> TRUE, isError |-> FALSE, msgIsString |-> FALSE, message |-> <<>>]
\* the { message: errorMessage } literal the console.error hook passes on
MessageObject(m) == [truthy |-> TRUE, isError |-> FALSE, msgIsString |-> TRUE, message |-> m]

\* window.__VAPI_DAILY_ERROR_HANDLER__:
\* error && typeof error.message === "string" && (includes || includes)
IsMeetingEndedError(error) ==
    error.truthy /\ error.msgIsString /\ IsMeetingEndedText(error.message)

\* the same test as the wrapper's .catch writes it
WrapperIsMeetingEnded(error) ==
    /\ error.truthy
    /\ error.msgIsString
    /\ (Includes(error.message, PhraseHasEnded) \/ Includes(error.message, PhraseEnded))

\* the same test as Agent's handlers.error writes it
AgentIsMeetingEnded(error) ==
    /\ error.truthy
    /\ error.msgIsString
    /\ (Includes(error.message, PhraseHasEnded) \/ Includes(error.message, PhraseEnded))

\* the console.error hook: the test on args.join(" ")
HookIsMeetingEnded(errorMessage) ==
    Includes(errorMessage, PhraseHasEnded) \/ Includes(errorMessage, PhraseEnded)

\* String(error) as console.error's join sees it
ErrorToString(error) ==
    IF ~error.truthy THEN <<"null">>
    ELSE IF error.isError THEN <<"Error:">> \o error.message
    ELSE <<"[object", "Object]">>

\* OptimizedAgent.handleCall: isDailyError
IsDailyError(errorMessage) ==
    Includes(errorMessage, <<"Meeting">>)
        /\ (Includes(errorMessage, <<"ended">>) \/ Includes(errorMessage, <<"has", "ended">>))

\* ------------------------------------------------------------------- state
VARIABLES
    handle,                \* window.__VAPI_INSTANCE__
    vapi,                  \* the module's exported binding
    handlerInstalled,      \* window.__VAPI_DAILY_ERROR_HANDLER__ is set
    consoleDepth,          \* how many times console.error has been wrapped
    globalListeners,       \* 'unhandledrejection' / 'error' listener pairs added
    meetingEndedListeners, \* 'vapi:meeting-ended' listeners added
    constructed,           \* wrapped instances constructed so far (ids 1..constructed)
    mocks,                 \* no-op stand-ins created so far
    live,                  \* ids constructed and not yet invalidated by a broadcast
    timers,                \* pending setTimeout callbacks, in creation order
    now,                   \* the clock, in ms
    invalidations,         \* cleanups of the handle by the global handler, this termination
    broadcasts,            \* 'vapi:meeting-ended' events dispatched, this termination
    stopFailures,          \* stop() calls of the global handler that threw, so far
    seen,                  \* observation points that saw this termination
    out,                   \* console.error lines of the last step, in order
    lastCall,              \* what the wrapped call of the last step was given and delivered
    prevented,             \* the global event of the last step had preventDefault() called
    turn,                  \* handles read by the accesses of the last turn
    calls,                 \* handleCall invocations: the start races of each
    callStatus,            \* Agent: callStatus
    messages,              \* Agent: messages
    agentType,             \* Agent: the type prop
    routes,                \* Agent: router.push calls, in order
    feedbackCalls,         \* Agent: the transcripts createFeedback was called with
    feedbackPending,       \* Agent: createFeedback calls not yet settled
    errorSeen,             \* Agent: what the first terminal voice error found and left
    cMsg,                  \* classifier study: the message under test
    cVerdict,              \* classifier study: each site's verdict on cMsg
    isSubmitting,          \* AuthForm: isSubmitting
    attempts,              \* AuthForm: the onSubmit invocations, each with what it did
    storage,               \* localStorage item 'fallbackAuth' (parsed)
    isProduction,          \* process.env.NODE_ENV === "production"
    storageWorks,          \* localStorage.setItem does not throw
    tokenSet,              \* process.env.NEXT_PUBLIC_VAPI_WEB_TOKEN is defined
    credentials,           \* process.env.FIREBASE_PROJECT_ID / _CLIENT_EMAIL / _PRIVATE_KEY
    component,             \* the component the interview page mounts: "Agent" or "OptimizedAgent"
    admin,                 \* the server process: firebase-admin apps and the module's exports
    clip                   \* the page's clipboard environment, a CopyButton and the copyToClipboard calls

guardVars == <<handle, vapi, handlerInstalled, consoleDepth, globalListeners,
               meetingEndedListeners, constructed, mocks, live, invalidations,
               broadcasts, stopFailures, seen, lastCall, prevented, turn>>
callVars == <<calls, callStatus, messages, agentType, routes, feedbackCalls,
              feedbackPending, errorSeen>>
classVars == <<cMsg, cVerdict>>
authVars == <<isSubmitting, attempts, storage, isProduction, storageWorks>>
envVars == <<tokenSet, credentials, component>>
adminVars == <<admin>>
clipVars == <<clip>>
vars == <<guardVars, timers, now, out, callVars, classVars, authVars, envVars, adminVars, clipVars>>

Absent == [kind |-> "absent", id |-> 0]
\* a browser page with the Clipboard API, no CopyButton mounted yet
BrowserEnv == [window |-> TRUE, navigator |-> TRUE, clipboard |-> "present"]
\* CopyButton's useState initial values
ClipUnmounted(env) ==
    [env |-> env, mounted |-> FALSE, clipboardSupported |-> TRUE, copied |-> FALSE,
     showFallback |-> FALSE, clicks |-> 0, calls |-> <<>>, log |-> <<>>]
Wrapped(k) == [kind |-> "wrapped", id |-> k]
\* createMockVapi: a new object on every call
createMockVapi(k) == [kind |-> "mock", id |-> k]

\* typeof window.__VAPI_INSTANCE__.on === "function"
OnIsFunction(h) == h.kind \in {"wrapped", "mock"}

\* ------------------------------------------------- the guard's code paths
\* The code paths below run inside one event-loop task.  They thread a record
\* w of everything they may change:
\*   handle, live, timers, invalidations, broadcasts, out  as the variables,
\*   depth, mel, installed   hooks installed so far,
\*   script                  what the SDK's next stop() calls will do.
World(script) ==
    [handle |-> handle, live |-> live, timers |-> timers,
     invalidations |-> invalidations, broadcasts |-> broadcasts, out |-> <<>>,
     stopFailures |-> stopFailures,
     depth |-> consoleDepth, mel |-> meetingEndedListeners,
     installed |-> handlerInstalled, script |-> script]

StopOk == [ok |-> TRUE, err |-> NullError]
StopThrows(e) == [ok |-> FALSE, err |-> e]

ResetTimer(due) == [kind |-> "reset", due |-> due, call |-> 0]

RECURSIVE AddResetTimers(_, _, _)
AddResetTimers(ts, due, n) ==
    IF n = 0 THEN ts ELSE AddResetTimers(Append(ts, ResetTimer(due)), due, n - 1)

\* window.dispatchEvent(new CustomEvent("vapi:meeting-ended")): every listener
\* of the guard module schedules its own delayed reset of the handle
DispatchMeetingEnded(w) ==
    [w EXCEPT !.broadcasts = @ + 1,
              !.live = @ \ {w.handle.id},
              !.timers = AddResetTimers(@, now + ResetDelayMs, w.mel)]

RECURSIVE ConsoleErrorAt(_, _, _)
RECURSIVE DailyErrorHandler(_, _)
RECURSIVE WrapperInvoke(_, _, _)

\* a wrapper whose catch neither logs nor re-throws
WrapperInvokeSwallow(w, prop, outcome) ==
    [w |-> w, threw |-> FALSE, err |-> NullError]

\* a wrapper whose catch logs the error twice before re-throwing it
WrapperInvokeLogsTwice(w, prop, outcome) ==
    IF outcome.ok
    THEN [w |-> w, threw |-> FALSE, err |-> NullError]
    ELSE LET line == <<"Error in Vapi method", prop>> \o ErrorToString(outcome.err)
         IN [w |-> ConsoleErrorAt(ConsoleErrorAt(w, line, w.depth), line, w.depth),
             threw |-> TRUE, err |-> outcome.err]

\* The wrapper's function for a method other than start that does not return a
\* promise: the result, or the logged and re-thrown error.
WrapperInvoke(w, prop, outcome) ==
    IF outcome.ok
    THEN [w |-> w, threw |-> FALSE, err |-> NullError]
    ELSE [w |-> ConsoleErrorAt(w, <<"Error in Vapi method", prop>> \o ErrorToString(outcome.err), w.depth),
          threw |-> TRUE, err |-> outcome.err]

\* window.__VAPI_DAILY_ERROR_HANDLER__
DailyErrorHandler(w, error) ==
    IF ~IsMeetingEndedError(error) THEN [w |-> w, ret |-> FALSE]
    ELSE IF w.handle.kind = "absent" THEN [w |-> w, ret |-> TRUE]
    ELSE
      LET o == IF w.script = <<>> THEN StopOk ELSE Head(w.script)
          w1 == [w EXCEPT !.script = IF @ = <<>> THEN @ ELSE Tail(@),
                          !.invalidations = @ + 1]
          s == WrapperInvoke(w1, "stop", o)
      IN IF s.threw
         THEN [w |-> ConsoleErrorAt([s.w EXCEPT !.stopFailures = @ + 1],
                                    <<"Error during Daily.co cleanup:">> \o ErrorToString(s.err), s.w.depth),
               ret |-> TRUE]
         ELSE [w |-> DispatchMeetingEnded(s.w), ret |-> TRUE]

\* console.error after d evaluations of the module: layer d calls layer d-1
\* (the original at 0, which prints), then tests the joined text itself
ConsoleErrorAt(w, line, d) ==
    IF d = 0 THEN [w EXCEPT !.out = Append(@, line)]
    ELSE LET w1 == ConsoleErrorAt(w, line, d - 1)
         IN IF HookIsMeetingEnded(line) /\ w1.installed
            THEN DailyErrorHandler(w1, MessageObject(line)).w
            ELSE w1

ConsoleError(w, line) == ConsoleErrorAt(w, line, w.depth)

\* a .catch that never re-throws
WrapperOnRejectedSwallow(w, prop, error) ==
    [w |-> ConsoleError(w, <<"Error in Vapi method", prop>> \o ErrorToString(error)),
     outcome |-> "resolved", err |-> NullError]

\* The .catch the wrapper attaches to the promise a method other than start
\* returned: log, classify, then resolve silently or re-throw.
WrapperOnRejected(w, prop, error) ==
    LET w1 == ConsoleError(w, <<"Error in Vapi method", prop>> \o ErrorToString(error))
    IN IF WrapperIsMeetingEnded(error)
       THEN [w |-> w1, outcome |-> "resolved", err |-> NullError]
       ELSE [w |-> w1, outcome |-> "rejected", err |-> error]

\* a listener that suppresses every event that carries a value
GlobalListenerEager(w, error) ==
    IF error.truthy
    THEN [w |-> DailyErrorHandler(w, error).w, prevent |-> TRUE]
    ELSE [w |-> w, prevent |-> FALSE]

\* a window listener of the guard: if (x && handler(x)) event.preventDefault()
GlobalListener(w, error) ==
    IF error.truthy
    THEN LET h == DailyErrorHandler(w, error) IN [w |-> h.w, prevent |-> h.ret]
    ELSE [w |-> w, prevent |-> FALSE]

\* the event goes to every listener the evaluations have added, in order
RECURSIVE DispatchGlobal(_, _, _)
DispatchGlobal(w, error, n) ==
    IF n = 0 THEN [w |-> w, prevent |-> FALSE]
    ELSE LET first == GlobalListener(w, error)
             rest == DispatchGlobal(first.w, error, n - 1)
         IN [w |-> rest.w, prevent |-> first.prevent \/ rest.prevent]

\* --------------------------------------------------------------- the inputs
ErrHasEnded == MkError(PhraseHasEnded)
ErrEnded == MkError(<<"not">> \o PhraseEnded)
ErrOther == MkError(<<"not", "ended">>)
GuardErrors == {ErrHasEnded, ErrEnded, ErrOther, PlainObject}
Props == {"stop", "send"}

\* what the SDK's stop() does the next times it is called; afterwards it succeeds
Scripts == UNION {[1..n -> {StopThrows(ErrHasEnded), StopThrows(ErrOther)}] : n \in 0..MaxScript}

NoCall == [prop |-> "", kind |-> "none", given |-> NullError, outcome |-> "none", got |-> NullError]

\* ------------------------------------------------------------------ timers
DueTimers == {i \in 1..Len(timers) : timers[i].due <= now}
\* the due timer with the earliest deadline, the earliest created among equals
NextTimer ==
    CHOOSE i \in DueTimers :
        \A j \in DueTimers :
            timers[i].due < timers[j].due \/ (timers[i].due = timers[j].due /\ i <= j)
RemoveAt(ts, i) == SubSeq(ts, 1, i - 1) \o SubSeq(ts, i + 1, Len(ts))

\* ----------------------------------------------------------------- actions
\* what every step of the guard writes back from the record it threaded
Commit(w) ==
    /\ handle' = w.handle
    /\ live' = w.live
    /\ timers' = w.timers
    /\ invalidations' = w.invalidations
    /\ broadcasts' = w.broadcasts
    /\ stopFailures' = w.stopFailures
    /\ out' = w.out
    /\ Len(SelectSeq(w.timers, LAMBDA t : t.kind = "reset")) <= MaxTimers

\* every step other than an evaluation ends the turn of the evaluations before it
EndTurn == turn' = <<>>

\* a step in which no wrapped call settled / no global event was delivered
NoWrappedCall == lastCall' = NoCall
NoGlobalEvent == prevented' = FALSE

\* the store is left to a later step of the event loop
StoreInstanceDeferred(old, wrappedInstance) == old

\* window.__VAPI_INSTANCE__ = wrappedInstance
StoreInstance(old, wrappedInstance) == wrappedInstance

\* One evaluation of src/lib/vapi.sdk.ts in this window.  constructorThrows:
\* new Vapi(token) throws.
EvaluateModule(constructorThrows) ==
    /\ consoleDepth < MaxEvals
    /\ LET w0 == [World(<<>>) EXCEPT !.depth = @ + 1, !.installed = TRUE]
           create == handle.kind = "absent" \/ ~OnIsFunction(handle)
           id == constructed + 1
           w1 == IF ~create THEN w0
                 ELSE IF constructorThrows
                 THEN ConsoleError(w0, <<"Error initializing Vapi instance:">> \o ErrorToString(ErrOther))
                 ELSE [w0 EXCEPT !.handle = StoreInstance(@, Wrapped(id)),
                                 !.live = @ \cup {id},
                                 !.invalidations = 0, !.broadcasts = 0]
           export == IF ~create THEN handle
                     ELSE IF constructorThrows THEN createMockVapi(mocks + 1)
                     ELSE Wrapped(id)
       IN /\ Commit(w1)
          /\ vapi' = export
          /\ constructed' = IF create /\ ~constructorThrows THEN id ELSE constructed
          /\ mocks' = IF create /\ constructorThrows THEN mocks + 1 ELSE mocks
          /\ seen' = IF create /\ ~constructorThrows THEN {} ELSE seen
          /\ turn' = Append(turn, [found |-> handle, got |-> export])
    /\ handlerInstalled' = TRUE
    /\ consoleDepth' = consoleDepth + 1
    /\ globalListeners' = globalListeners + 1
    /\ meetingEndedListeners' = meetingEndedListeners + 1
    /\ NoWrappedCall /\ NoGlobalEvent
    /\ UNCHANGED <<now, callVars, classVars, authVars, envVars, adminVars, clipVars>>

\* A caller invokes a method other than start on the exported handle and the
\* SDK's method returns or throws synchronously.
InvokeWrapped(prop, outcome, script) ==
    /\ vapi.kind = "wrapped"
    /\ ~outcome.ok /\ IsMeetingEndedError(outcome.err) => "throw" \notin seen
    /\ LET r == WrapperInvoke(World(script), prop, outcome)
       IN /\ Commit(r.w)
          /\ lastCall' = [prop |-> prop,
                          kind |-> IF outcome.ok THEN "returns" ELSE "throws",
                          given |-> outcome.err,
                          outcome |-> IF r.threw THEN "threw" ELSE "returned",
                          got |-> r.err]
    /\ seen' = IF ~outcome.ok /\ IsMeetingEndedError(outcome.err) THEN seen \cup {"throw"} ELSE seen
    /\ EndTurn
    /\ NoGlobalEvent
    /\ UNCHANGED <<vapi, handlerInstalled, consoleDepth, globalListeners,
                   meetingEndedListeners, constructed, mocks, now, callVars, classVars, authVars, envVars, adminVars, clipVars>>

\* The promise a method other than start returned rejects with error.
WrappedCallRejects(prop, error, script) ==
    /\ vapi.kind = "wrapped"
    /\ IsMeetingEndedError(error) => "call" \notin seen
    /\ LET r == WrapperOnRejected(World(script), prop, error)
       IN /\ Commit(r.w)
          /\ lastCall' = [prop |-> prop, kind |-> "rejects", given |-> error,
                          outcome |-> r.outcome, got |-> r.err]
    /\ seen' = IF IsMeetingEndedError(error) THEN seen \cup {"call"} ELSE seen
    /\ EndTurn
    /\ NoGlobalEvent
    /\ UNCHANGED <<vapi, handlerInstalled, consoleDepth, globalListeners,
                   meetingEndedListeners, constructed, mocks, now, callVars, classVars, authVars, envVars, adminVars, clipVars>>

\* window receives 'unhandledrejection' (point = "unhandledrejection", reason)
\* or 'error' (point = "error", event.error)
GlobalEvent(point, error, script) ==
    /\ globalListeners > 0
    /\ IsMeetingEndedError(error) => point \notin seen
    /\ LET r == DispatchGlobal(World(script), error, globalListeners)
       IN /\ Commit(r.w)
          /\ prevented' = r.prevent
    /\ seen' = IF IsMeetingEndedError(error) THEN seen \cup {point} ELSE seen
    /\ EndTurn
    /\ NoWrappedCall
    /\ UNCHANGED <<vapi, handlerInstalled, consoleDepth, globalListeners,
                   meetingEndedListeners, constructed, mocks, now, callVars, classVars, authVars, envVars, adminVars, clipVars>>

\* the delayed reset the 'vapi:meeting-ended' listener scheduled
ResetTimerFires ==
    /\ DueTimers # {}
    /\ timers[NextTimer].kind = "reset"
    /\ handle' = Absent
    /\ timers' = RemoveAt(timers, NextTimer)
    /\ out' = <<>>
    /\ EndTurn
    /\ NoWrappedCall /\ NoGlobalEvent
    /\ UNCHANGED <<vapi, handlerInstalled, consoleDepth, globalListeners,
                   meetingEndedListeners, constructed, mocks, live, invalidations,
                   broadcasts, stopFailures, seen, now,
                   callVars, classVars, authVars, envVars, adminVars, clipVars>>

\* the earliest deadline among the pending timers
NextDue == CHOOSE d \in {timers[i].due : i \in 1..Len(timers)} :
               \A j \in 1..Len(timers) : d <= timers[j].due

\* time passes, by tick or up to the next deadline if that comes first; a due
\* timer runs before the clock moves on
Advance(tick, limit) ==
    /\ DueTimers = {}
    /\ LET t == IF timers # <<>> /\ NextDue < now + tick THEN NextDue ELSE now + tick
       IN t <= limit /\ now' = t
    /\ out' = <<>>
    /\ EndTurn
    /\ NoWrappedCall /\ NoGlobalEvent
    /\ UNCHANGED <<handle, vapi, handlerInstalled, consoleDepth, globalListeners,
                   meetingEndedListeners, constructed, mocks, live, invalidations,
                   broadcasts, stopFailures, seen, timers,
                   callVars, classVars, authVars, envVars, adminVars, clipVars>>

\* ----------------------------------------------------- the guard's behaviour
InitGuard ==
    /\ handle = Absent
    /\ vapi = Absent
    /\ handlerInstalled = FALSE
    /\ consoleDepth = 0
    /\ globalListeners = 0
    /\ meetingEndedListeners = 0
    /\ constructed = 0
    /\ mocks = 0
    /\ live = {}
    /\ timers = <<>>
    /\ now = 0
    /\ invalidations = 0
    /\ broadcasts = 0
    /\ stopFailures = 0
    /\ seen = {}
    /\ out = <<>>
    /\ lastCall = NoCall
    /\ prevented = FALSE
    /\ turn = <<>>

NoErrorSeen ==
    [seen |-> FALSE, fragments |-> <<>>, statusAfter |-> "", stops |-> 0,
     stopsFailed |-> 0, handedBefore |-> 0]

InitIdleCall ==
    /\ calls = <<>>
    /\ callStatus = "INACTIVE"
    /\ messages = <<>>
    /\ agentType = "interview"
    /\ routes = <<>>
    /\ feedbackCalls = <<>>
    /\ feedbackPending = 0
    /\ errorSeen = NoErrorSeen

\* FIREBASE_PRIVATE_KEY as the characters of interest: "\\n" is the two
\* characters backslash and n, "\n" a line feed; <<>> is unset or empty
AllCredentials == [projectId |-> TRUE, clientEmail |-> TRUE, privateKey |-> <<"key", "\\n", "key">>]

NoAdminOp == [on |-> "none", op |-> "", outcome |-> "none"]

\* the server process before any admin module was evaluated
AdminNotLoaded ==
    [loaded |-> "none", evals |-> 0, apps |-> 0, threw |-> FALSE, usingMock |-> FALSE,
     auth |-> "none", db |-> "none", certKey |-> <<>>, log |-> <<>>, lastOp |-> NoAdminOp]

\* the deployment has its voice API token and its server credentials, its
\* interview page mounts Agent, and no server module is under study
InitTokenSet ==
    /\ tokenSet = TRUE
    /\ component = "Agent"
    /\ credentials = AllCredentials
    /\ admin = AdminNotLoaded
    /\ clip = ClipUnmounted(BrowserEnv)

InitIdleClass ==
    /\ cMsg = <<>>
    /\ cVerdict = [done |-> FALSE, wrapper |-> FALSE, handler |-> FALSE, hook |-> FALSE,
                   agent |-> FALSE, handleCall |-> FALSE]

\* no AuthForm is mounted
NoItem == [present |-> FALSE]

InitIdleAuth ==
    /\ isSubmitting = FALSE
    /\ attempts = <<>>
    /\ storage = NoItem
    /\ isProduction = TRUE
    /\ storageWorks = TRUE

Init == InitGuard /\ InitIdleCall /\ InitIdleClass /\ InitIdleAuth /\ InitTokenSet

\* the errors the lifecycle is driven with: both phrases and one other failure
LifecycleErrors == {ErrHasEnded, ErrEnded, ErrOther}

Next ==
    \/ \E t \in BOOLEAN : EvaluateModule(t)
    \/ \E e \in LifecycleErrors, s \in Scripts : WrappedCallRejects("send", e, s)
    \/ \E pt \in {"unhandledrejection", "error"}, e \in LifecycleErrors, s \in Scripts :
          GlobalEvent(pt, e, s)
    \/ ResetTimerFires
    \/ Advance(TickMs, MaxTime)

Spec == Init /\ [][Next]_vars

\* ------------------------------------------------------ starting a call
ErrStartTimedOut == MkError(<<"Vapi start method timed out after 10 seconds">>)
ErrCallInitTimedOut == MkError(<<"Call initialization timed out">>)
ErrCallInitFailed == MkError(<<"Call initialization timed out or failed">>)

StartTimer(due, i) == [kind |-> "start", due |-> due, call |-> i]
CallInitTimer(due, i) == [kind |-> "callinit", due |-> due, call |-> i]

\* a .catch of the start race that lets the error of the cleanup escape
WrapperStartOnRejectedLeaky(w, error) ==
    LET w1 == ConsoleError(w, <<"Error in Vapi start method:">> \o ErrorToString(error))
        o == IF w1.script = <<>> THEN StopOk ELSE Head(w1.script)
        w2 == [w1 EXCEPT !.script = IF @ = <<>> THEN @ ELSE Tail(@)]
    IN [w |-> w2, outcome |-> "rejected", err |-> IF o.ok THEN error ELSE o.err]

\* The .catch of the wrapper's start race: log, target.stop() with its own
\* try/catch, re-throw.
WrapperStartOnRejected(w, error) ==
    LET w1 == ConsoleError(w, <<"Error in Vapi start method:">> \o ErrorToString(error))
        o == IF w1.script = <<>> THEN StopOk ELSE Head(w1.script)
        w2 == [w1 EXCEPT !.script = IF @ = <<>> THEN @ ELSE Tail(@)]
        w3 == IF o.ok THEN w2
              ELSE ConsoleError(w2, <<"Error during cleanup:">> \o ErrorToString(o.err))
    IN [w |-> w3, outcome |-> "rejected", err |-> error]

\* startCallWithTimeout's catch: log, return false
StartCallCatch(w, error) ==
    ConsoleError(w, <<"Call initialization error:">> \o ErrorToString(error))

\* a handleCall whose catch receives the error the start failed with
HandleCallCaughtOriginal(error) == error

\* The error handleCall's catch receives when the start failed with error:
\* startCallWithTimeout has swallowed error and returned false, and handleCall
\* throws its own.
HandleCallCaught(error) == ErrCallInitFailed

\* OptimizedAgent: the timer of handleCall's catch that unsets the global handle
ComponentResetTimer(due) == [kind |-> "componentReset", due |-> due, call |-> 0]

\* handleCall's catch: log (the status and the message are set by the action);
\* OptimizedAgent also schedules a reset of the global handle when the message
\* of the caught error names a meeting that ended
HandleCallCatch(w, error) ==
    LET caught == HandleCallCaught(error)
        w1 == ConsoleError(w, <<"Error starting Vapi call:">> \o ErrorToString(caught))
    IN IF component = "OptimizedAgent" /\ IsDailyError(caught.message)
       THEN [w1 EXCEPT !.timers = Append(@, ComponentResetTimer(now + ComponentResetDelayMs))]
       ELSE w1

\* an entry of the transcript
SystemMessage(content) == [role |-> "system", content |-> content, seq |-> 0]

FeedbackTimer(due) == [kind |-> "feedback", due |-> due, call |-> 0]

\* The completion effect of Agent, re-run by React when callStatus or messages
\* changed: the cleanup clears the effect's pending timer, and under FINISHED a
\* new 100 ms timer is set.
CompletionEffect(w, newStatus, newMessages) ==
    IF routes # <<>> \/ (newStatus = callStatus /\ newMessages = messages) THEN w
    ELSE LET kept == SelectSeq(w.timers, LAMBDA t : t.kind # "feedback")
         IN [w EXCEPT !.timers = IF newStatus = "FINISHED"
                                 THEN Append(kept, FeedbackTimer(now + FeedbackDelayMs))
                                 ELSE kept]

\* the system message handleCall's catch appends when the start failed with error
HandleCallMessage(error) ==
    SystemMessage(IF component = "OptimizedAgent" /\ IsDailyError(HandleCallCaught(error).message)
                  THEN "previous session still active"
                  ELSE "error connecting")

\* OptimizedAgent listens to 'vapi:meeting-ended' (handleMeetingEnded): every
\* broadcast of the task that led to w sets FINISHED and appends a message
MeetingEndedHeard(w) ==
    IF component = "OptimizedAgent" THEN w.broadcasts - broadcasts ELSE 0

StatusAfterBroadcast(w, status) ==
    IF MeetingEndedHeard(w) > 0 THEN "FINISHED" ELSE status

RECURSIVE AppendEnded(_, _)
AppendEnded(ms, n) ==
    IF n <= 0 THEN ms ELSE AppendEnded(Append(ms, SystemMessage("session ended")), n - 1)

MessagesAfterBroadcast(w, ms) == AppendEnded(ms, MeetingEndedHeard(w))

\* a catch that sets the status and leaves the transcript alone
MessagesAfterFailureSilent(w, ms, error) == MessagesAfterBroadcast(w, ms)

\* handleCall's catch: setMessages((prev) => [...prev, { role: "system", ... }])
MessagesAfterFailure(w, ms, error) ==
    Append(MessagesAfterBroadcast(w, ms), HandleCallMessage(error))

\* the part of Agent that a start of a call leaves alone
CallFrame == UNCHANGED <<agentType, routes, feedbackCalls, feedbackPending, errorSeen>>

\* instance: the client the start was issued on; stale: that client's session
\* had already been terminated; handleCleared: window.__VAPI_INSTANCE__ was
\* unset at the time; whileConnecting: an earlier start was still in
\* flight; phase: how far the SDK's session of this start got
NewCall(under, inner, outer, result, at) ==
    [under |-> under, inner |-> inner, outer |-> outer, result |-> result,
     startedAt |-> now, underAt |-> at, innerAt |-> at, outerAt |-> at, cleanups |-> 0,
     instance |-> vapi,
     stale |-> vapi.kind = "wrapped" /\ vapi.id \notin live,
     handleCleared |-> handle.kind = "absent",
     whileConnecting |-> callStatus = "CONNECTING",
     phase |-> IF under = "pending" THEN "starting" ELSE "none"]

\* Agent.handleCall up to its first suspension.  behaviour: what the SDK's
\* start does when called ("pending": returns a promise; "throws": throws error).
AgentHandleCall(behaviour, error, script) ==
    /\ callStatus # "ACTIVE"
    /\ routes = <<>>
    /\ ~(component = "OptimizedAgent" /\ handle.kind = "absent")
    /\ vapi.kind \in {"wrapped", "mock"}
    /\ LET i == Len(calls) + 1
           w0 == [World(script) EXCEPT !.timers = Append(@, CallInitTimer(now + CallInitTimeoutMs, i))]
       IN IF vapi.kind = "mock"
          THEN /\ behaviour = "pending"
               /\ Commit(CompletionEffect(w0, "CONNECTING", messages))
               /\ calls' = Append(calls, NewCall("mock", "none", "op", "true", now))
               /\ callStatus' = "CONNECTING"
               /\ messages' = messages
               /\ lastCall' = [prop |-> "start", kind |-> "mock", given |-> NullError,
                               outcome |-> "resolved", got |-> NullError]
          ELSE IF behaviour = "pending"
          THEN /\ Commit(CompletionEffect(
                          [w0 EXCEPT !.timers = Append(@, StartTimer(now + StartTimeoutMs, i))],
                          "CONNECTING", messages))
               /\ calls' = Append(calls, NewCall("pending", "pending", "pending", "pending", 0 - 1))
               /\ callStatus' = "CONNECTING"
               /\ messages' = messages
               /\ lastCall' = NoCall
          ELSE /\ LET r == WrapperInvoke(w0, "start", StopThrows(error))
                      wf == HandleCallCatch(StartCallCatch(r.w, r.err), r.err)
                      ms == MessagesAfterFailure(wf, messages, r.err)
                  IN /\ Commit(CompletionEffect(wf, "ERROR", ms))
                     /\ messages' = ms
               /\ calls' = Append(calls, NewCall("threw", "none", "op", "false", now))
               /\ callStatus' = "ERROR"
               /\ lastCall' = [prop |-> "start", kind |-> "throws", given |-> error,
                               outcome |-> "threw", got |-> error]
    /\ EndTurn
    /\ NoGlobalEvent
    /\ UNCHANGED <<vapi, handlerInstalled, consoleDepth, globalListeners,
                   meetingEndedListeners, constructed, mocks, seen, now, classVars, authVars, envVars, adminVars, clipVars>>
    /\ CallFrame

\* The promise the SDK's start returned settles (ok: resolves; else rejects
\* with error).
StartSettles(i, ok, error, script) ==
    /\ i \in 1..Len(calls)
    /\ calls[i].under = "pending"
    /\ LET c == calls[i]
           innerNow == c.inner = "pending"
           outerNow == innerNow /\ c.outer = "pending"
           w1 == IF innerNow /\ ~ok THEN WrapperStartOnRejected(World(script), error).w
                 ELSE World(script)
           w2 == IF outerNow /\ ~ok THEN HandleCallCatch(StartCallCatch(w1, error), error) ELSE w1
           st == IF outerNow /\ ~ok THEN "ERROR" ELSE StatusAfterBroadcast(w2, callStatus)
           ms == IF outerNow /\ ~ok
                 THEN MessagesAfterFailure(w2, messages, error)
                 ELSE MessagesAfterBroadcast(w2, messages)
       IN /\ Commit(CompletionEffect(w2, st, ms))
          /\ calls' = [calls EXCEPT ![i] =
                 [c EXCEPT !.under = IF ok THEN "resolved" ELSE "rejected",
                           !.underAt = now,
                           !.inner = IF innerNow THEN "op" ELSE @,
                           !.innerAt = IF innerNow THEN now ELSE @,
                           !.outer = IF outerNow THEN "op" ELSE @,
                           !.outerAt = IF outerNow THEN now ELSE @,
                           !.result = IF outerNow THEN (IF ok THEN "true" ELSE "false") ELSE @,
                           !.cleanups = IF innerNow /\ ~ok THEN @ + 1 ELSE @]]
          /\ callStatus' = st
          /\ messages' = ms
          /\ lastCall' = IF innerNow
                         THEN [prop |-> "start",
                               kind |-> IF ok THEN "resolves" ELSE "rejects",
                               given |-> IF ok THEN NullError ELSE error,
                               outcome |-> IF ok THEN "resolved" ELSE "rejected",
                               got |-> IF ok THEN NullError ELSE error]
                         ELSE NoCall
    /\ EndTurn
    /\ NoGlobalEvent
    /\ UNCHANGED <<vapi, handlerInstalled, consoleDepth, globalListeners,
                   meetingEndedListeners, constructed, mocks, seen, now, classVars, authVars, envVars, adminVars, clipVars>>
    /\ CallFrame

\* the wrapper's 10 second timer of a start runs
StartTimeoutFires(script) ==
    /\ DueTimers # {}
    /\ timers[NextTimer].kind = "start"
    /\ LET i == timers[NextTimer].call
           c == calls[i]
           innerNow == c.inner = "pending"
           outerNow == innerNow /\ c.outer = "pending"
           w0 == [World(script) EXCEPT !.timers = RemoveAt(@, NextTimer)]
           r == WrapperStartOnRejected(w0, ErrStartTimedOut)
           w1 == IF innerNow THEN r.w ELSE w0
           w2 == IF outerNow THEN HandleCallCatch(StartCallCatch(w1, r.err), r.err) ELSE w1
           st == IF outerNow THEN "ERROR" ELSE StatusAfterBroadcast(w2, callStatus)
           ms == IF outerNow
                 THEN MessagesAfterFailure(w2, messages, r.err)
                 ELSE MessagesAfterBroadcast(w2, messages)
       IN /\ Commit(CompletionEffect(w2, st, ms))
          /\ calls' = [calls EXCEPT ![i] =
                 [c EXCEPT !.inner = IF innerNow THEN "timeout" ELSE @,
                           !.innerAt = IF innerNow THEN now ELSE @,
                           !.outer = IF outerNow THEN "op" ELSE @,
                           !.outerAt = IF outerNow THEN now ELSE @,
                           !.result = IF outerNow THEN "false" ELSE @,
                           !.cleanups = IF innerNow THEN @ + 1 ELSE @]]
          /\ callStatus' = st
          /\ messages' = ms
          /\ lastCall' = IF innerNow
                         THEN [prop |-> "start", kind |-> "timeout", given |-> ErrStartTimedOut,
                               outcome |-> r.outcome, got |-> r.err]
                         ELSE NoCall
    /\ EndTurn
    /\ NoGlobalEvent
    /\ UNCHANGED <<vapi, handlerInstalled, consoleDepth, globalListeners,
                   meetingEndedListeners, constructed, mocks, seen, now, classVars, authVars, envVars, adminVars, clipVars>>
    /\ CallFrame

\* startCallWithTimeout's 5 second timer runs
CallInitTimeoutFires ==
    /\ DueTimers # {}
    /\ timers[NextTimer].kind = "callinit"
    /\ LET i == timers[NextTimer].call
           c == calls[i]
           outerNow == c.outer = "pending"
           w0 == [World(<<>>) EXCEPT !.timers = RemoveAt(@, NextTimer)]
           w1 == IF outerNow THEN HandleCallCatch(StartCallCatch(w0, ErrCallInitTimedOut), ErrCallInitTimedOut) ELSE w0
           st == IF outerNow THEN "ERROR" ELSE StatusAfterBroadcast(w1, callStatus)
           ms == IF outerNow
                 THEN MessagesAfterFailure(w1, messages, ErrCallInitTimedOut)
                 ELSE MessagesAfterBroadcast(w1, messages)
       IN /\ Commit(CompletionEffect(w1, st, ms))
          /\ calls' = [calls EXCEPT ![i] =
                 [c EXCEPT !.outer = IF outerNow THEN "timeout" ELSE @,
                           !.outerAt = IF outerNow THEN now ELSE @,
                           !.result = IF outerNow THEN "false" ELSE @]]
          /\ callStatus' = st
          /\ messages' = ms
    /\ EndTurn
    /\ NoWrappedCall /\ NoGlobalEvent
    /\ UNCHANGED <<vapi, handlerInstalled, consoleDepth, globalListeners,
                   meetingEndedListeners, constructed, mocks, seen, now, classVars, authVars, envVars, adminVars, clipVars>>
    /\ CallFrame

\* The window after the module was evaluated once (constructorThrows as in
\* EvaluateModule): the state a mounted component starts from.
InitEvaluated(constructorThrows) ==
    /\ handle = IF constructorThrows THEN Absent ELSE Wrapped(1)
    /\ vapi = IF constructorThrows THEN createMockVapi(1) ELSE Wrapped(1)
    /\ handlerInstalled = TRUE
    /\ consoleDepth = 1
    /\ globalListeners = 1
    /\ meetingEndedListeners = 1
    /\ constructed = IF constructorThrows THEN 0 ELSE 1
    /\ mocks = IF constructorThrows THEN 1 ELSE 0
    /\ live = IF constructorThrows THEN {} ELSE {1}
    /\ timers = <<>>
    /\ now = 0
    /\ invalidations = 0
    /\ broadcasts = 0
    /\ stopFailures = 0
    /\ seen = {}
    /\ out = <<>>
    /\ lastCall = NoCall
    /\ prevented = FALSE
    /\ turn = <<>>

InitCall ==
    (\E t \in BOOLEAN : InitEvaluated(t)) /\ InitIdleCall /\ InitIdleClass /\ InitIdleAuth /\ InitTokenSet

\* the outcomes a start is driven with
StartErrors == {ErrHasEnded, ErrOther}

NextCall ==
    \/ \E b \in {"pending", "throws"}, e \in StartErrors, s \in Scripts :
          Len(calls) < MaxCalls /\ AgentHandleCall(b, e, s)
    \/ \E i \in 1..MaxCalls, ok \in BOOLEAN, e \in StartErrors, s \in Scripts : StartSettles(i, ok, e, s)
    \/ \E s \in Scripts : StartTimeoutFires(s)
    \/ CallInitTimeoutFires
    \/ ResetTimerFires
    \/ Advance(CallTickMs, MaxCallTime)

SpecCall == InitCall /\ [][NextCall]_vars

\* ------------------------------------------------ Agent and the SDK's events
\* the n-th final transcript fragment of the session
Fragment(n) == [role |-> "user", content |-> "transcript", seq |-> n]
FragmentsOf(ms) == SelectSeq(ms, LAMBDA m : m.role = "user")

\* the user, the SDK and the server act at multiples of the tick; timers run at
\* their deadlines
OnGrid == now % AgentTickMs = 0

\* the session of call i can still emit events to the handlers Agent registered
SessionOpen(i) ==
    /\ OnGrid
    /\ routes = <<>>
    /\ i \in 1..Len(calls)
    /\ calls[i].instance.kind = "wrapped"
    /\ calls[i].under \in {"pending", "resolved"}
    /\ calls[i].cleanups = 0
    /\ calls[i].instance.id \in live

AgentFrame ==
    UNCHANGED <<vapi, handlerInstalled, consoleDepth, globalListeners,
                meetingEndedListeners, constructed, mocks, now, classVars, authVars,
                envVars, adminVars, clipVars, agentType>>

\* an event that is no error of the session
NoErrorEvent == UNCHANGED seen

\* handlers["call-start"]
SdkCallStart(i) ==
    /\ SessionOpen(i)
    /\ calls[i].phase = "starting"
    /\ Commit(CompletionEffect(World(<<>>), "ACTIVE", messages))
    /\ callStatus' = "ACTIVE"
    /\ calls' = [calls EXCEPT ![i].phase = "joined"]
    /\ EndTurn /\ NoWrappedCall /\ NoGlobalEvent
    /\ UNCHANGED <<messages, routes, feedbackCalls, feedbackPending, errorSeen>>
    /\ NoErrorEvent
    /\ AgentFrame

\* handlers["call-end"]
SdkCallEnd(i) ==
    /\ SessionOpen(i)
    /\ calls[i].phase = "joined"
    /\ Commit(CompletionEffect(World(<<>>), "FINISHED", messages))
    /\ callStatus' = "FINISHED"
    /\ calls' = [calls EXCEPT ![i].phase = "ended"]
    /\ EndTurn /\ NoWrappedCall /\ NoGlobalEvent
    /\ UNCHANGED <<messages, routes, feedbackCalls, feedbackPending, errorSeen>>
    /\ NoErrorEvent
    /\ AgentFrame

\* handlers.message: only final transcripts are kept
SdkMessage(i, final) ==
    /\ SessionOpen(i)
    /\ calls[i].phase = "joined"
    /\ Len(FragmentsOf(messages)) < MaxFragments
    /\ LET newMessages == IF final
                          THEN Append(messages, Fragment(Len(FragmentsOf(messages)) + 1))
                          ELSE messages
       IN /\ Commit(CompletionEffect(World(<<>>), callStatus, newMessages))
          /\ messages' = newMessages
    /\ EndTurn /\ NoWrappedCall /\ NoGlobalEvent
    /\ UNCHANGED <<calls, callStatus, routes, feedbackCalls, feedbackPending, errorSeen>>
    /\ NoErrorEvent
    /\ AgentFrame

\* a handlers.error that keeps only its own message
AgentErrorMessagesReplace(ms) ==
    <<SystemMessage("session ended")>>

\* handlers.error, on a terminal error: the transcript it leaves
AgentErrorMessages(ms) ==
    Append(ms, SystemMessage("session ended"))

\* handlers.error
SdkError(i, error, script) ==
    /\ SessionOpen(i)
    /\ calls[i].phase \in {"starting", "joined"}
    /\ "voice" \notin seen
    /\ seen' = seen \cup {"voice"}
    /\ LET w1 == ConsoleError(World(script), <<"Vapi error:">> \o ErrorToString(error))
           terminal == AgentIsMeetingEnded(error)
           heard == MessagesAfterBroadcast(w1, messages)
           newStatus == IF terminal THEN "FINISHED" ELSE StatusAfterBroadcast(w1, callStatus)
           newMessages == IF terminal THEN AgentErrorMessages(heard) ELSE heard
       IN /\ Commit(CompletionEffect(w1, newStatus, newMessages))
          /\ callStatus' = newStatus
          /\ messages' = newMessages
          /\ calls' = [calls EXCEPT ![i].phase = IF terminal THEN "ended" ELSE @]
          /\ errorSeen' = IF terminal /\ ~errorSeen.seen
                          THEN [seen |-> TRUE, fragments |-> FragmentsOf(messages),
                                statusAfter |-> newStatus,
                                stops |-> w1.invalidations - invalidations,
                                stopsFailed |-> w1.stopFailures - stopFailures,
                                handedBefore |-> Len(feedbackCalls)]
                          ELSE errorSeen
    /\ EndTurn /\ NoWrappedCall /\ NoGlobalEvent
    /\ UNCHANGED <<routes, feedbackCalls, feedbackPending>>
    /\ AgentFrame

\* window 'error': the guard's listeners, then Agent's handleUnhandledError;
\* OptimizedAgent also hears the broadcast the guard's listeners may send
AgentWindowError(error, script) ==
    /\ OnGrid
    /\ routes = <<>>
    /\ globalListeners > 0
    /\ "error" \notin seen
    /\ seen' = seen \cup {"error"}
    /\ LET r == DispatchGlobal(World(script), error, globalListeners)
           terminal == AgentIsMeetingEnded(error)
           newStatus == IF terminal THEN "FINISHED" ELSE StatusAfterBroadcast(r.w, callStatus)
           newMessages == MessagesAfterBroadcast(r.w, messages)
       IN /\ Commit(CompletionEffect(r.w, newStatus, newMessages))
          /\ callStatus' = newStatus
          /\ messages' = newMessages
          /\ prevented' = (r.prevent \/ terminal)
    /\ EndTurn /\ NoWrappedCall
    /\ UNCHANGED <<calls, routes, feedbackCalls, feedbackPending, errorSeen>>
    /\ AgentFrame

\* handleDisconnect: the End Call button, shown while ACTIVE
HandleDisconnect(outcome, script) ==
    /\ OnGrid
    /\ routes = <<>>
    /\ callStatus = "ACTIVE"
    /\ LET r == IF vapi.kind = "wrapped" THEN WrapperInvoke(World(script), "stop", outcome)
                ELSE [w |-> World(script), threw |-> FALSE, err |-> NullError]
       IN /\ Commit(CompletionEffect(r.w, "FINISHED", MessagesAfterBroadcast(r.w, messages)))
          /\ messages' = MessagesAfterBroadcast(r.w, messages)
    /\ callStatus' = "FINISHED"
    /\ calls' = [i \in 1..Len(calls) |->
                    [calls[i] EXCEPT !.phase = IF @ \in {"starting", "joined"} THEN "ended" ELSE @]]
    /\ EndTurn /\ NoWrappedCall /\ NoGlobalEvent
    /\ UNCHANGED <<routes, feedbackCalls, feedbackPending, errorSeen>>
    /\ NoErrorEvent
    /\ AgentFrame

\* the 100 ms timer of the completion effect runs
FeedbackTimerFires ==
    /\ DueTimers # {}
    /\ timers[NextTimer].kind = "feedback"
    /\ timers' = RemoveAt(timers, NextTimer)
    /\ IF agentType = "generate"
       THEN /\ routes' = Append(routes, "/")
            /\ UNCHANGED <<feedbackCalls, feedbackPending>>
       ELSE /\ feedbackCalls' = Append(feedbackCalls, messages)
            /\ feedbackPending' = feedbackPending + 1
            /\ UNCHANGED routes
    /\ out' = <<>>
    /\ EndTurn /\ NoWrappedCall /\ NoGlobalEvent
    /\ UNCHANGED <<handle, live, invalidations, broadcasts, stopFailures,
                   calls, callStatus, messages, errorSeen>>
    /\ NoErrorEvent
    /\ AgentFrame

\* what createFeedback settles with: { success: true, feedbackId }, success
\* without an id, { success: false }, or a rejection
FeedbackResults == {"saved", "savedNoId", "failed", "rejects"}

\* a completion handler that trusts every settlement
FeedbackRouteAlways(result) == "/interview/feedback"

\* if (success && id) router.push(feedback page) else / catch: router.push("/")
FeedbackRoute(result) ==
    IF result = "saved" THEN "/interview/feedback" ELSE "/"

\* createFeedback settles: { success, feedbackId } or a rejection
CreateFeedbackSettles(result) ==
    /\ OnGrid
    /\ feedbackPending > 0
    /\ feedbackPending' = feedbackPending - 1
    /\ routes' = Append(routes, FeedbackRoute(result))
    /\ timers' = SelectSeq(timers, LAMBDA t : t.kind # "feedback")
    /\ out' = IF result = "saved" THEN <<>>
              ELSE IF result \in {"failed", "savedNoId"} THEN <<<<"Error saving feedback">>>>
              ELSE <<<<"Error generating feedback:">>>>
    /\ EndTurn /\ NoWrappedCall /\ NoGlobalEvent
    /\ UNCHANGED <<handle, live, invalidations, broadcasts, stopFailures,
                   calls, callStatus, messages, feedbackCalls, errorSeen>>
    /\ NoErrorEvent
    /\ AgentFrame

\* time passes for Agent: to the next deadline, or else to the next multiple of
\* the tick
AgentAdvance ==
    /\ DueTimers = {}
    /\ LET grid == ((now \div AgentTickMs) + 1) * AgentTickMs
           t == IF timers # <<>> /\ NextDue < grid THEN NextDue ELSE grid
       IN t <= MaxAgentTime /\ now' = t
    /\ out' = <<>>
    /\ EndTurn /\ NoWrappedCall /\ NoGlobalEvent
    /\ UNCHANGED <<handle, vapi, handlerInstalled, consoleDepth, globalListeners,
                   meetingEndedListeners, constructed, mocks, live, invalidations,
                   broadcasts, stopFailures, seen, timers,
                   callVars, classVars, authVars, envVars, adminVars, clipVars>>

InitAgent ==
    /\ \E t \in BOOLEAN : InitEvaluated(t)
    /\ calls = <<>>
    /\ callStatus = "INACTIVE"
    /\ messages = <<>>
    /\ agentType \in {"generate", "interview"}
    /\ routes = <<>>
    /\ feedbackCalls = <<>>
    /\ feedbackPending = 0
    /\ errorSeen = NoErrorSeen
    /\ InitIdleClass
    /\ InitIdleAuth
    /\ InitTokenSet

NextAgent ==
    \/ \E b \in {"pending", "throws"}, e \in StartErrors, s \in Scripts :
          OnGrid /\ Len(calls) < MaxSessions /\ AgentHandleCall(b, e, s)
    \/ \E i \in 1..MaxSessions, ok \in BOOLEAN, e \in StartErrors :
          OnGrid /\ StartSettles(i, ok, e, <<>>)
    \/ \E i \in 1..MaxSessions : SdkCallStart(i)
    \/ \E i \in 1..MaxSessions : SdkCallEnd(i)
    \/ \E i \in 1..MaxSessions, f \in BOOLEAN : SdkMessage(i, f)
    \/ \E i \in 1..MaxSessions, e \in StartErrors, s \in Scripts : SdkError(i, e, s)
    \/ \E e \in StartErrors : AgentWindowError(e, <<>>)
    \/ \E o \in {StopOk, StopThrows(ErrOther)} : HandleDisconnect(o, <<>>)
    \/ \E r \in FeedbackResults : CreateFeedbackSettles(r)
    \/ CallInitTimeoutFires
    \/ ResetTimerFires
    \/ FeedbackTimerFires
    \/ AgentAdvance

SpecAgent == InitAgent /\ [][NextAgent]_vars

\* Agent's button used again: starts of a call one after, or during, another
NextRestart ==
    \/ \E b \in {"pending", "throws"}, e \in StartErrors :
          Len(calls) < MaxAgentCalls /\ AgentHandleCall(b, e, <<>>)
    \/ \E i \in 1..MaxAgentCalls, ok \in BOOLEAN, e \in StartErrors : StartSettles(i, ok, e, <<>>)
    \/ CallInitTimeoutFires
    \/ ResetTimerFires
    \/ Advance(AgentTickMs, MaxAgentTime)

SpecRestart == InitCall /\ [][NextRestart]_vars

\* ------------------------------------------------------ the no-op stand-in
\* the members of the object createMockVapi returns
MockOps == {"on", "off", "start", "stop", "setDebug", "setTimeout"}

\* what calling member op of the stand-in delivers: start returns
\* Promise.resolve(), every other member returns undefined
MockVapiCall(op) ==
    [prop |-> op, kind |-> "mock", given |-> NullError,
     outcome |-> IF op = "start" THEN "resolved" ELSE "returned", got |-> NullError]

\* a caller invokes member op of the exported handle, which is the stand-in
InvokeStandIn(op) ==
    /\ vapi.kind = "mock"
    /\ lastCall' = MockVapiCall(op)
    /\ out' = <<>>
    /\ EndTurn
    /\ NoGlobalEvent
    /\ UNCHANGED <<handle, vapi, handlerInstalled, consoleDepth, globalListeners,
                   meetingEndedListeners, constructed, mocks, live, invalidations,
                   broadcasts, stopFailures, seen, timers, now,
                   callVars, classVars, authVars, envVars, adminVars, clipVars>>

\* A page load with or without the token: the module is evaluated (the SDK's
\* constructor throws or returns, whatever the token: the module hands the
\* variable to the constructor unread), then callers use the exported handle.
InitStandIn ==
    /\ InitGuard /\ InitIdleCall /\ InitIdleClass /\ InitIdleAuth
    /\ tokenSet \in BOOLEAN
    /\ component = "Agent"
    /\ credentials = AllCredentials
    /\ admin = AdminNotLoaded
    /\ clip = ClipUnmounted(BrowserEnv)

NextStandIn ==
    \/ \E t \in BOOLEAN : EvaluateModule(t)
    \/ \E op \in MockOps : InvokeStandIn(op)
    \/ \E p \in Props, e \in LifecycleErrors, s \in Scripts : InvokeWrapped(p, StopThrows(e), s)
    \/ \E p \in Props : InvokeWrapped(p, StopOk, <<>>)
    \/ ResetTimerFires
    \/ Advance(TickMs, MaxTime)

SpecStandIn == InitStandIn /\ [][NextStandIn]_vars

\* The calls through the wrapper, at one instant: every method, every outcome.
NextWrap ==
    \/ \E p \in Props, e \in GuardErrors, s \in Scripts : InvokeWrapped(p, StopThrows(e), s)
    \/ \E p \in Props : InvokeWrapped(p, StopOk, <<>>)
    \/ \E p \in Props, e \in GuardErrors \cup {NullError}, s \in Scripts : WrappedCallRejects(p, e, s)
    \/ \E b \in {"pending", "throws"}, e \in GuardErrors, s \in Scripts :
          Len(calls) < MaxCalls /\ AgentHandleCall(b, e, s)
    \/ \E i \in 1..MaxCalls, ok \in BOOLEAN, e \in GuardErrors \cup {NullError}, s \in Scripts :
          StartSettles(i, ok, e, s)

SpecWrap == InitCall /\ [][NextWrap]_vars

\* ------------------------------------------------- claims on the lifecycle
\* C1: one logical termination, seen by the three observation points in any
\* order, invalidates the handle exactly once and is broadcast exactly once.
\* Stated for terminations whose stop() calls all succeeded and that no
\* synchronous throw reported.
C1_ExactlyOnePerTermination ==
    (seen # {} /\ "throw" \notin seen /\ stopFailures = 0 /\ constructed > 0 /\ consoleDepth = 1)
        => (broadcasts = 1 /\ invalidations = 1)

\* C2: at most one wrapped instance is live in every reachable state (stated
\* for the runs in which no stop() of the global handler threw).
C2_AtMostOneLive == stopFailures = 0 => Cardinality(live) <= 1

C9_BroadcastOnEveryClassification ==
    [][(seen' # seen /\ seen \subseteq seen') => broadcasts' > broadcasts]_vars

\* -------------------------------------------------- the classifier's sites
NoVerdict ==
    [done |-> FALSE, wrapper |-> FALSE, handler |-> FALSE, hook |-> FALSE,
     agent |-> FALSE, handleCall |-> FALSE]

\* each site's verdict on an Error whose message is cMsg (the hook sees the
\* line the wrapper logs for it)
Classify ==
    /\ ~cVerdict.done
    /\ cVerdict' =
         [done |-> TRUE,
          wrapper |-> WrapperIsMeetingEnded(MkError(cMsg)),
          handler |-> IsMeetingEndedError(MkError(cMsg)),
          hook |-> HookIsMeetingEnded(<<"Error in Vapi method", "send">> \o ErrorToString(MkError(cMsg))),
          agent |-> AgentIsMeetingEnded(MkError(cMsg)),
          handleCall |-> IsDailyError(cMsg)]
    /\ UNCHANGED <<guardVars, timers, now, out, callVars, cMsg, authVars, envVars, adminVars, clipVars>>

InitClassify ==
    /\ InitGuard
    /\ InitIdleCall
    /\ cMsg \in Messages
    /\ cVerdict = NoVerdict
    /\ InitIdleAuth
    /\ InitTokenSet

SpecClassify == InitClassify /\ [][Classify]_vars

\* ------------------------------------------------ claims on starting a call
CallIsOver(i) == \A k \in 1..Len(timers) : timers[k].call # i

\* C4: a start that has not settled by its deadline D fails at D with a
\* timeout, and stop() is attempted exactly once for it: for the wrapper's race
\* (D = 10000) and for startCallWithTimeout's (D = 5000), the cleanup counted
\* once the call's timers have all run.
C4_TimeoutAtDeadlineOneCleanup ==
    \A i \in 1..Len(calls) :
        /\ calls[i].inner = "timeout"
              => (calls[i].innerAt = calls[i].startedAt + StartTimeoutMs /\ calls[i].cleanups = 1)
        /\ calls[i].outer = "timeout"
              => calls[i].outerAt = calls[i].startedAt + CallInitTimeoutMs
        /\ (calls[i].outer = "timeout" /\ CallIsOver(i)) => calls[i].cleanups = 1

\* C5: once the started operation has settled and won its race, no deadline
\* timer of that call is still pending.
C5_TimerCancelledWhenOperationWins ==
    \A i \in 1..Len(calls) :
        (calls[i].under \in {"resolved", "rejected"} /\ calls[i].inner = "op")
            => \A k \in 1..Len(timers) : timers[k].call # i

\* C6: when the operation settles at the instant its deadline timer runs, the
\* caller gets the operation's outcome, not the timeout.
C6_OperationWinsTies ==
    \A i \in 1..Len(calls) :
        /\ ~(calls[i].inner = "timeout" /\ calls[i].underAt = calls[i].innerAt)
        /\ ~(calls[i].outer = "timeout" /\ calls[i].underAt = calls[i].outerAt)

\* ------------------------------------------------ claims on the interceptor
RejectionLogLine(prop, error) ==
    IF prop = "start" THEN <<"Error in Vapi start method:">> \o ErrorToString(error)
    ELSE <<"Error in Vapi method", prop>> \o ErrorToString(error)

C8_SyncErrorsLoggedAndRethrown ==
    lastCall.kind = "throws" =>
        /\ lastCall.outcome = "threw"
        /\ lastCall.got = lastCall.given
        /\ out # <<>>
        /\ out[1] = <<"Error in Vapi method", lastCall.prop>> \o ErrorToString(lastCall.given)

C8_Witness ==
    /\ lastCall.kind = "throws"
    /\ lastCall.outcome = "threw"
    /\ IsMeetingEndedError(lastCall.given)
    /\ broadcasts > 0

\* ------------------------------------------------ claims on the classifier
\* C10: every site's verdict is "the message contains one of the two phrases",
\* so all sites agree on any message.
C10_AllSitesAgree ==
    cVerdict.done =>
        /\ cVerdict.wrapper = IsMeetingEndedText(cMsg)
        /\ cVerdict.handler = IsMeetingEndedText(cMsg)
        /\ cVerdict.hook = IsMeetingEndedText(cMsg)
        /\ cVerdict.agent = IsMeetingEndedText(cMsg)
        /\ cVerdict.handleCall = IsMeetingEndedText(cMsg)

\* ------------------------------------------------------ AuthForm: sign-in
\* a getTimeouts without the production branch: the development values always
getTimeoutsFlat(production) ==
    [firebase |-> 10000, token |-> 5000, server |-> 15000, internal |-> 12000]

\* getTimeouts()
getTimeouts(production) ==
    IF production
    THEN [firebase |-> 5000, token |-> 3000, server |-> 8000, internal |-> 6000]
    ELSE [firebase |-> 10000, token |-> 5000, server |-> 15000, internal |-> 12000]

\* const timeouts = getTimeouts()
timeouts == getTimeouts(isProduction)

\* What a promise of the sign-in flow rejects with: name, code and message (in
\* pieces, so that "timeout" is found inside "(auth/timeout)").
AuthError(name, code, message) ==
    [truthy |-> TRUE, name |-> name, code |-> code, message |-> message]
FirebaseError(code, piece) ==
    AuthError("FirebaseError", code, <<"Firebase: Error (auth/", piece, ").">>)
ErrUserNotFound == FirebaseError("auth/user-not-found", "user-not-found")
ErrWrongPassword == FirebaseError("auth/wrong-password", "wrong-password")
ErrInvalidCredential == FirebaseError("auth/invalid-credential", "invalid-credential")
ErrNetworkFailed == FirebaseError("auth/network-request-failed", "network-request-failed")
ErrAuthTimeout == FirebaseError("auth/timeout", "timeout")
ErrAbort == AuthError("AbortError", "", <<"The operation was aborted.">>)
ErrInternal == FirebaseError("auth/internal-error", "internal-error")
ErrNull == [truthy |-> FALSE, name |-> "", code |-> "", message |-> <<>>]
ErrNoToken == AuthError("Error", "", <<"Failed to retrieve authentication token">>)
\* reading a property of null or undefined
TypeErrorOfNull == AuthError("TypeError", "", <<"Cannot read properties of null">>)

ProviderRejected == {"auth/user-not-found", "auth/wrong-password", "auth/invalid-credential"}
SignInErrors ==
    {ErrUserNotFound, ErrWrongPassword, ErrInvalidCredential, ErrNetworkFailed,
     ErrAuthTimeout, ErrAbort, ErrInternal, ErrNull}

\* one thing an onSubmit invocation did that the user or a later reader can
\* see; by: the code that did it ("call": the flow after its awaits,
\* "timer": the global timeout callback)
Effect(by, kind, arg) == [by |-> by, kind |-> kind, arg |-> arg]

\* createFallbackAuth(email, uid): the item written, if setItem does not throw
FallbackItem(uid) ==
    [present |-> TRUE, email |-> "email", uid |-> uid, timestamp |-> now,
     isAuthenticated |-> TRUE]

createFallbackAuth(old, uid) == IF storageWorks THEN FallbackItem(uid) ELSE old

\* the classified message of the inner catch, by error.code
SignInErrorToast(error) ==
    IF error.code = "auth/user-not-found" THEN "User not found."
    ELSE IF error.code = "auth/wrong-password" THEN "Incorrect password."
    ELSE IF error.code = "auth/invalid-credential" THEN "Invalid credentials."
    ELSE IF error.code = "auth/network-request-failed" THEN "Network error."
    ELSE "Sign-in error"

\* a catch that takes every failure for a timeout
SignInCatchAlwaysFallback(error) ==
    [effects |-> <<Effect("call", "toast.dismiss", "loading"),
                   Effect("call", "fallback", "fallback"),
                   Effect("call", "toast.warning", "Using offline mode due to slow connection."),
                   Effect("call", "push", "/")>>,
     fallback |-> "fallback", threw |-> ErrNull, returned |-> TRUE]

\* The catch of the sign-in try.  r.effects: what it did; r.fallback: the uid
\* prefix it created a fallback with, or ""; r.threw: what it threw itself.
SignInCatch(error) ==
    IF ~error.truthy
    THEN [effects |-> <<Effect("call", "toast.dismiss", "loading")>>,
          fallback |-> "", threw |-> TypeErrorOfNull, returned |-> FALSE]
    ELSE IF error.name = "AbortError" \/ Includes(error.message, <<"timeout">>)
    THEN [effects |-> <<Effect("call", "toast.dismiss", "loading"),
                        Effect("call", "fallback", "fallback"),
                        Effect("call", "toast.warning", "Using offline mode due to slow connection."),
                        Effect("call", "push", "/")>>,
          fallback |-> "fallback", threw |-> ErrNull, returned |-> TRUE]
    ELSE IF error.code = "auth/network-request-failed"
    THEN [effects |-> <<Effect("call", "toast.dismiss", "loading"),
                        Effect("call", "toast.error", SignInErrorToast(error)),
                        Effect("call", "fallback", "fallback"),
                        Effect("call", "toast.warning", "Using offline mode."),
                        Effect("call", "push", "/")>>,
          fallback |-> "fallback", threw |-> ErrNull, returned |-> FALSE]
    ELSE [effects |-> <<Effect("call", "toast.dismiss", "loading"),
                        Effect("call", "toast.error", SignInErrorToast(error))>>,
          fallback |-> "", threw |-> ErrNull, returned |-> FALSE]

\* The outer catch: a toast by error.code; escapes: it threw itself.
OuterCatch(error) ==
    IF ~error.truthy
    THEN [effects |-> <<>>, escapes |-> TRUE]
    ELSE [effects |-> <<Effect("call", "toast.error", "There was an error")>>,
          escapes |-> FALSE]

\* inner catch, then the outer catch for what the inner one threw
SignInFailure(error) ==
    LET c == SignInCatch(error)
    IN IF c.threw.truthy
       THEN LET o == OuterCatch(c.threw)
            IN [effects |-> c.effects \o o.effects, fallback |-> c.fallback, escapes |-> o.escapes]
       ELSE [effects |-> c.effects, fallback |-> c.fallback, escapes |-> FALSE]

AbortTimer(due, i) == [kind |-> "abort", due |-> due, call |-> i]
GlobalTimer(due, i) == [kind |-> "global", due |-> due, call |-> i]

\* a finally that knows the abort timer only
WithoutTimersOfAbortOnly(ts, i) ==
    SelectSeq(ts, LAMBDA t : ~(t.call = i /\ t.kind = "abort"))

RECURSIVE WithoutTimersOf(_, _)
\* finally: timeoutIds.forEach((id) => clearTimeout(id))
WithoutTimersOf(ts, i) ==
    IF ts = <<>> THEN <<>>
    ELSE IF Head(ts).call = i /\ Head(ts).kind \in {"abort", "global"}
         THEN WithoutTimersOf(Tail(ts), i)
         ELSE <<Head(ts)>> \o WithoutTimersOf(Tail(ts), i)

NewAttempt ==
    [stage |-> "auth", startedAt |-> now, deadlinePassed |-> FALSE, byTimer |-> FALSE,
     authOk |-> FALSE, authError |-> ErrNull, authAt |-> 0 - 1, tokenAt |-> 0 - 1,
     fallbacks |-> 0, effects |-> <<Effect("call", "toast.loading", "Signing in...")>>,
     escaped |-> FALSE]

AuthFrame == UNCHANGED <<guardVars, callVars, classVars, isProduction, storageWorks, envVars, adminVars, clipVars>>

\* onSubmit of a sign-in form, up to its first await
Submit ==
    /\ ~isSubmitting
    /\ Len(attempts) < MaxSubmits
    /\ isSubmitting' = TRUE
    /\ attempts' = Append(attempts, NewAttempt)
    /\ timers' = timers \o <<AbortTimer(now + timeouts.firebase, Len(attempts) + 1),
                             GlobalTimer(now + timeouts.server, Len(attempts) + 1)>>
    /\ out' = <<>>
    /\ UNCHANGED <<storage, now>>
    /\ AuthFrame

\* the end of an invocation whose flow failed with error: the catches, then
\* finally
FlowFails(i, error) ==
    LET f == SignInFailure(error)
        a == attempts[i]
    IN /\ attempts' = [attempts EXCEPT ![i] =
              [a EXCEPT !.stage = "done",
                        !.effects = @ \o f.effects,
                        !.fallbacks = IF f.fallback # "" THEN @ + 1 ELSE @,
                        !.escaped = f.escapes,
                        !.authOk = IF a.stage = "auth" THEN FALSE ELSE @,
                        !.authError = IF a.stage = "auth" THEN error ELSE @,
                        !.authAt = IF a.stage = "auth" THEN now ELSE @]]
       /\ storage' = IF f.fallback # "" THEN createFallbackAuth(storage, <<f.fallback, now>>)
                     ELSE storage
       /\ timers' = WithoutTimersOf(timers, i)
       /\ isSubmitting' = FALSE
       /\ out' = <<<<"Sign-in error:">>>> \o (IF error.truthy THEN <<>> ELSE <<<<"Outer error:">>>>)

\* signInWithEmailAndPassword settles
SignInSettles(i, ok, error) ==
    /\ i \in 1..Len(attempts)
    /\ attempts[i].stage = "auth"
    /\ IF ok
       THEN /\ attempts' = [attempts EXCEPT ![i].stage = "token", ![i].authOk = TRUE,
                                            ![i].authAt = now]
            /\ out' = <<>>
            /\ UNCHANGED <<storage, timers, isSubmitting>>
       ELSE FlowFails(i, error)
    /\ UNCHANGED now
    /\ AuthFrame

\* userCredential.user.getIdToken() settles: with a token, with an empty
\* token, or it rejects
GetIdTokenSettles(i, result, error) ==
    /\ i \in 1..Len(attempts)
    /\ attempts[i].stage = "token"
    /\ IF result = "token"
       THEN /\ attempts' = [attempts EXCEPT ![i].stage = "server", ![i].tokenAt = now]
            /\ out' = <<>>
            /\ UNCHANGED <<storage, timers, isSubmitting>>
       ELSE FlowFails(i, IF result = "empty" THEN ErrNoToken ELSE error)
    /\ UNCHANGED now
    /\ AuthFrame

\* the signIn server action settles: response.success, or not, or it rejects
ServerSignInSettles(i, result, error) ==
    /\ i \in 1..Len(attempts)
    /\ attempts[i].stage = "server"
    /\ IF result = "rejects"
       THEN FlowFails(i, error)
       ELSE /\ attempts' = [attempts EXCEPT ![i] =
                   [@ EXCEPT !.stage = "done",
                             !.effects = @ \o
                                 (IF result = "success"
                                  THEN <<Effect("call", "toast.dismiss", "loading"),
                                         Effect("call", "toast.success", "Signed in successfully."),
                                         Effect("call", "push", "/")>>
                                  ELSE <<Effect("call", "toast.dismiss", "loading"),
                                         Effect("call", "toast.error", "Failed to sign in.")>>)]]
            /\ timers' = WithoutTimersOf(timers, i)
            /\ isSubmitting' = FALSE
            /\ out' = <<>>
            /\ UNCHANGED storage
    /\ UNCHANGED now
    /\ AuthFrame

\* the abort timer runs: controller.abort(), on a controller whose signal no
\* call was given
AbortTimerFires ==
    /\ DueTimers # {}
    /\ timers[NextTimer].kind = "abort"
    /\ LET i == timers[NextTimer].call
       IN attempts' = [attempts EXCEPT ![i].deadlinePassed = attempts[i].stage = "auth"]
    /\ timers' = RemoveAt(timers, NextTimer)
    /\ out' = <<>>
    /\ UNCHANGED <<storage, isSubmitting, now>>
    /\ AuthFrame

\* the global timeout callback runs
GlobalTimeoutFires ==
    /\ DueTimers # {}
    /\ timers[NextTimer].kind = "global"
    /\ LET i == timers[NextTimer].call
       IN attempts' = [attempts EXCEPT ![i] =
              [@ EXCEPT !.byTimer = TRUE,
                        !.fallbacks = @ + 1,
                        !.effects = @ \o <<Effect("timer", "fallback", "temp"),
                                           Effect("timer", "toast.dismiss", "loading"),
                                           Effect("timer", "toast.warning", "Authentication taking longer than expected. Using offline mode."),
                                           Effect("timer", "push", "/")>>]]
    /\ storage' = createFallbackAuth(storage, <<"temp", now>>)
    /\ timers' = RemoveAt(timers, NextTimer)
    /\ isSubmitting' = FALSE
    /\ out' = <<>>
    /\ UNCHANGED now
    /\ AuthFrame

\* time passes while an invocation is in flight or one of its timers is pending
AuthAdvance ==
    /\ DueTimers = {}
    /\ timers # <<>> \/ \E i \in 1..Len(attempts) : attempts[i].stage # "done"
    /\ LET t == IF timers # <<>> /\ NextDue < now + AuthTickMs THEN NextDue ELSE now + AuthTickMs
       IN t <= MaxAuthTime /\ now' = t
    /\ out' = <<>>
    /\ UNCHANGED <<timers, isSubmitting, attempts, storage>>
    /\ AuthFrame

InitSignIn ==
    /\ InitGuard
    /\ InitIdleCall
    /\ InitIdleClass
    /\ isSubmitting = FALSE
    /\ attempts = <<>>
    /\ storage = NoItem
    /\ isProduction \in BOOLEAN
    /\ storageWorks \in BOOLEAN
    /\ InitTokenSet

NextSignIn ==
    \/ Submit
    \/ \E i \in 1..MaxSubmits, ok \in BOOLEAN, e \in SignInErrors : SignInSettles(i, ok, e)
    \/ \E i \in 1..MaxSubmits, r \in {"token", "empty", "rejects"}, e \in {ErrNetworkFailed, ErrInternal} :
          GetIdTokenSettles(i, r, e)
    \/ \E i \in 1..MaxSubmits, r \in {"success", "failure", "rejects"}, e \in {ErrNetworkFailed, ErrInternal} :
          ServerSignInSettles(i, r, e)
    \/ AbortTimerFires
    \/ GlobalTimeoutFires
    \/ AuthAdvance

SpecSignIn == InitSignIn /\ [][NextSignIn]_vars

\* ---------------------------------------------------- claims on sign-in
EffectsOfKind(a, kinds) == {k \in 1..Len(a.effects) : a.effects[k].kind \in kinds}
Navigated(a) == \E k \in 1..Len(a.effects) : a.effects[k].kind = "push" /\ a.effects[k].arg = "/"
AuthFailedWith(a) == a.authAt >= 0 /\ ~a.authOk /\ a.authError.truthy
Transient(error) == error.code = "auth/network-request-failed" \/ error.name = "AbortError"

\* C11: a sign-in call still pending at the identity-provider deadline
\* (timeouts.firebase), or failed with a transient code, has a fallback
\* credential stored (fresh timestamp, local uid), has navigated to "/", and
\* lets no rejection escape.  Stated for a localStorage that accepts writes.
C11_FallbackOnDeadlineOrTransient ==
    storageWorks =>
        \A i \in 1..Len(attempts) :
            (attempts[i].deadlinePassed
                \/ (attempts[i].stage = "done" /\ AuthFailedWith(attempts[i])
                       /\ Transient(attempts[i].authError)))
            => /\ storage.present
               /\ storage.uid[2] = storage.timestamp
               /\ attempts[i].fallbacks >= 1
               /\ Navigated(attempts[i])
               /\ ~attempts[i].escaped

C13_ProvenanceDegraded ==
    storage.present => ("provenance" \in DOMAIN storage /\ storage.provenance = "degraded")

\* C14: one sign-in attempt creates the fallback credential at most once.
C14_FallbackAtMostOnce ==
    \A i \in 1..Len(attempts) : attempts[i].fallbacks <= 1

\* C15: once the deadline timer has handled an attempt, the sign-in flow adds
\* no toast, navigation or fallback of its own; and a finished invocation has
\* no deadline timer left.
C15_OneRacerTakesEffect ==
    \A i \in 1..Len(attempts) :
        /\ \A j, k \in 1..Len(attempts[i].effects) :
              ~(/\ j < k
                /\ attempts[i].effects[j].by = "timer"
                /\ attempts[i].effects[k].by = "call"
                /\ attempts[i].effects[k].kind \in
                      {"toast.warning", "toast.error", "toast.success", "push", "fallback"})
        /\ attempts[i].stage = "done" =>
              \A k \in 1..Len(timers) : timers[k].call # i

\* ---------------------------------------------------------- the call status
\* how far along INACTIVE -> CONNECTING -> ACTIVE -> FINISHED or ERROR a status is
StatusRank(s) ==
    CASE s = "INACTIVE" -> 0
      [] s = "CONNECTING" -> 1
      [] s = "ACTIVE" -> 2
      [] OTHER -> 3

\* a step in which handleCall started a call
FreshStart == Len(calls') > Len(calls)

\* C17: the call status only moves forward along INACTIVE -> CONNECTING ->
\* ACTIVE -> FINISHED or ERROR, and goes back to CONNECTING only by a fresh
\* start of a call; in particular ERROR or FINISHED never becomes ACTIVE
\* without a new start.  (A change between FINISHED and ERROR is not counted as
\* a move backward.)
C17_StatusOnlyForward ==
    [][callStatus' # callStatus =>
          \/ StatusRank(callStatus') >= StatusRank(callStatus)
          \/ FreshStart /\ callStatus' = "CONNECTING"]_vars

\* ------------------------------------------- a terminal error mid-transcript
\* xs occurs in ys as a subsequence: every element, in the same order
RECURSIVE IsSubsequence(_, _)
IsSubsequence(xs, ys) ==
    IF xs = <<>> THEN TRUE
    ELSE IF ys = <<>> THEN FALSE
    ELSE IF Head(xs) = Head(ys) THEN IsSubsequence(Tail(xs), Tail(ys))
    ELSE IsSubsequence(xs, Tail(ys))

\* the transcripts handed to createFeedback after the terminal error
HandedAfterError ==
    {feedbackCalls[k] : k \in (errorSeen.handedBefore + 1)..Len(feedbackCalls)}

HandleLiveInvalid == handle.kind = "wrapped" /\ handle.id \notin live

\* C16: the voice handle follows absent -> live -> live-invalid -> absent: once
\* a termination was broadcast the clearing of the handle is scheduled, and the
\* next start of a call, once the handle was cleared, uses a freshly
\* constructed instance, never the terminated one.
C16_NextStartUsesFreshInstance ==
    /\ HandleLiveInvalid => \E k \in 1..Len(timers) : timers[k].kind = "reset"
    /\ \A i \in 1..Len(calls) : calls[i].handleCleared => ~calls[i].stale

\* C18: a handleCall invoked while an earlier start is still in flight (status
\* CONNECTING) never issues a second vapi.start (calls holds one entry for
\* every vapi.start that was issued).
C18_NoSecondStartWhileConnecting ==
    \A j \in 1..Len(calls) : ~calls[j].whileConnecting

\* ------------------------------------------------- claims on the stand-in
\* the module has been evaluated in this window
ModuleEvaluated == consoleDepth > 0

\* C20: when the voice API token is missing at construction, the exported
\* handle is the no-op stand-in, and every operation on it (on, off, start,
\* stop, setDebug, setTimeout) completes without throwing or rejecting.
C20_MissingTokenGivesStandIn ==
    (ModuleEvaluated /\ ~tokenSet) =>
        /\ vapi.kind = "mock"
        /\ lastCall.kind # "none" => lastCall.outcome \in {"returned", "resolved"}

\* ------------------------------------------------- the server's admin module
\* the values FIREBASE_PRIVATE_KEY is given
AdminKeys == {<<>>, <<"key">>, <<"key", "\\n", "key">>}

\* privateKey.replace(/\\n/g, "\n")
ReplaceNewlines(key) == [i \in 1..Len(key) |-> IF key[i] = "\\n" THEN "\n" ELSE key[i]]

\* all three variables are set and not empty
hasCredentials ==
    credentials.projectId /\ credentials.clientEmail /\ credentials.privateKey # <<>>

\* class MockAuth: every method is async and returns a value
MockAuthOps == {"getUserByEmail", "verifyIdToken", "createCustomToken",
                "createSessionCookie", "verifySessionCookie"}
\* class MockFirestore: the builders return this, the others are async
MockFirestoreBuilders == {"collection", "doc", "where", "orderBy", "limit"}
MockFirestoreOps == MockFirestoreBuilders \cup {"get", "set", "update", "delete", "add"}

MockAuthCall(op) == [on |-> "auth", op |-> op, outcome |-> "resolved"]
MockFirestoreCall(op) ==
    [on |-> "db", op |-> op,
     outcome |-> IF op \in MockFirestoreBuilders THEN "returned" ELSE "resolved"]

\* what the firebase-admin SDK does in one evaluation: initializeApp with a
\* certificate, initializeApp without options, getAuth / getFirestore
SdkBehaviours == [certInit : {"ok", "throws"}, emptyInit : {"ok", "throws"},
                  services : {"ok", "throws"}]

AdminFrame ==
    UNCHANGED <<guardVars, timers, now, out, callVars, classVars, authVars, envVars, clipVars>>

\* src/firebase/admin.ts is evaluated: initializeFirebaseAdmin(), then the two
\* exports
initializeFirebaseAdmin(sdk) ==
    /\ admin.evals < MaxEvals
    /\ LET base == [admin EXCEPT !.loaded = "admin", !.evals = @ + 1, !.lastOp = NoAdminOp,
                                 !.threw = FALSE, !.usingMock = FALSE,
                                 !.auth = "none", !.db = "none", !.log = <<>>]
           thrown == [base EXCEPT !.threw = TRUE]
       IN admin' =
            IF ~hasCredentials THEN thrown
            ELSE IF admin.apps = 0 /\ sdk.certInit = "throws"
            THEN [thrown EXCEPT !.log = <<"Firebase initialization error:">>,
                                !.certKey = ReplaceNewlines(credentials.privateKey)]
            ELSE LET inited == IF admin.apps = 0
                               THEN [base EXCEPT !.apps = 1,
                                                 !.certKey = ReplaceNewlines(credentials.privateKey)]
                               ELSE base
                 IN IF sdk.services = "throws" THEN [inited EXCEPT !.threw = TRUE]
                    ELSE [inited EXCEPT !.auth = "real", !.db = "real"]
    /\ AdminFrame

\* the other admin module (src/unnamed/part_001) is evaluated: initFirebaseAdmin()
initFirebaseAdmin(sdk) ==
    /\ admin.evals < MaxEvals
    /\ LET base == [admin EXCEPT !.loaded = "part_001", !.evals = @ + 1, !.lastOp = NoAdminOp,
                                 !.threw = FALSE, !.usingMock = FALSE,
                                 !.auth = "none", !.db = "none", !.log = <<>>]
           mocked(a) == [a EXCEPT !.usingMock = TRUE, !.auth = "mock", !.db = "mock"]
           \* initializeApp() without options, outside any try
           fallback(a) == IF sdk.emptyInit = "throws" THEN [a EXCEPT !.threw = TRUE]
                          ELSE mocked([a EXCEPT !.apps = @ + 1])
           services(a) == IF sdk.services = "throws"
                          THEN mocked([a EXCEPT !.log = Append(@, "Error getting Firebase Admin services:")])
                          ELSE [a EXCEPT !.auth = "real", !.db = "real"]
       IN admin' =
            IF admin.apps = 0
            THEN IF ~hasCredentials
                 THEN fallback([base EXCEPT !.log = <<"Firebase credentials are missing:">>])
                 ELSE IF sdk.certInit = "throws"
                 THEN fallback([base EXCEPT !.log = <<"Error initializing Firebase Admin:">>,
                                            !.certKey = ReplaceNewlines(credentials.privateKey)])
                 ELSE services([base EXCEPT !.apps = 1,
                                            !.certKey = ReplaceNewlines(credentials.privateKey)])
            ELSE services(base)
    /\ AdminFrame

\* a server action calls a method of the exported auth
AdminAuthCall(op, realOutcome) ==
    /\ admin.auth # "none"
    /\ admin' = [admin EXCEPT !.lastOp =
                    IF admin.auth = "mock" THEN MockAuthCall(op)
                    ELSE [on |-> "auth", op |-> op, outcome |-> realOutcome]]
    /\ AdminFrame

\* a server action calls a method of the exported db
AdminDbCall(op, realOutcome) ==
    /\ admin.db # "none"
    /\ admin' = [admin EXCEPT !.lastOp =
                    IF admin.db = "mock" THEN MockFirestoreCall(op)
                    ELSE [on |-> "db", op |-> op, outcome |-> realOutcome]]
    /\ AdminFrame

InitAdmin ==
    /\ InitGuard /\ InitIdleCall /\ InitIdleClass /\ InitIdleAuth
    /\ tokenSet = TRUE
    /\ component = "Agent"
    /\ credentials \in [projectId : BOOLEAN, clientEmail : BOOLEAN, privateKey : AdminKeys]
    /\ admin = AdminNotLoaded
    /\ clip = ClipUnmounted(BrowserEnv)

NextAdmin ==
    \/ \E sdk \in SdkBehaviours : initializeFirebaseAdmin(sdk)
    \/ \E sdk \in SdkBehaviours : initFirebaseAdmin(sdk)
    \/ \E op \in MockAuthOps, r \in {"resolved", "rejected"} : AdminAuthCall(op, r)
    \/ \E op \in MockFirestoreOps, r \in {"resolved", "rejected"} : AdminDbCall(op, r)

SpecAdmin == InitAdmin /\ [][NextAdmin]_vars

\* C21: when any of the three server-side credentials is missing, admin
\* initialization does not throw: it yields stand-in auth and db objects whose
\* every operation succeeds.
C21_MissingCredentialsGiveStandIns ==
    (admin.loaded # "none" /\ ~hasCredentials) =>
        /\ ~admin.threw
        /\ admin.auth = "mock" /\ admin.db = "mock"
        /\ admin.lastOp.outcome \in {"none", "returned", "resolved"}

\* ------------------------------------------------ OptimizedAgent's handleCall
\* handleCall of OptimizedAgent when window.__VAPI_INSTANCE__ is unset: the
\* status is set and the page is reloaded; nothing is started
OptimizedHandleCallReloads ==
    /\ component = "OptimizedAgent"
    /\ callStatus # "ACTIVE"
    /\ routes = <<>>
    /\ handle.kind = "absent"
    /\ Commit(CompletionEffect(World(<<>>), "CONNECTING", messages))
    /\ callStatus' = "CONNECTING"
    /\ routes' = Append(routes, "reload")
    /\ EndTurn /\ NoWrappedCall /\ NoGlobalEvent
    /\ UNCHANGED <<vapi, handlerInstalled, consoleDepth, globalListeners,
                   meetingEndedListeners, constructed, mocks, seen, now,
                   calls, messages, agentType, feedbackCalls, feedbackPending, errorSeen,
                   classVars, authVars, envVars, adminVars, clipVars>>

\* The timer of OptimizedAgent's catch runs: window.__VAPI_INSTANCE__ = undefined.
\* (No specification below takes this step: C22 shows that the timer is never
\* scheduled.)
ComponentResetFires ==
    /\ DueTimers # {}
    /\ timers[NextTimer].kind = "componentReset"
    /\ timers' = RemoveAt(timers, NextTimer)
    /\ handle' = Absent
    /\ out' = <<>>
    /\ EndTurn /\ NoWrappedCall /\ NoGlobalEvent
    /\ UNCHANGED <<vapi, handlerInstalled, consoleDepth, globalListeners,
                   meetingEndedListeners, constructed, mocks, live, invalidations,
                   broadcasts, stopFailures, seen, now,
                   callVars, classVars, authVars, envVars, adminVars, clipVars>>

InitOptimized ==
    /\ \E t \in BOOLEAN : InitEvaluated(t)
    /\ InitIdleCall /\ InitIdleClass /\ InitIdleAuth
    /\ tokenSet = TRUE
    /\ component = "OptimizedAgent"
    /\ credentials = AllCredentials
    /\ admin = AdminNotLoaded
    /\ clip = ClipUnmounted(BrowserEnv)

NextOptimized ==
    \/ \E b \in {"pending", "throws"}, e \in StartErrors, s \in Scripts :
          Len(calls) < MaxAgentCalls /\ AgentHandleCall(b, e, s)
    \/ OptimizedHandleCallReloads
    \/ \E i \in 1..MaxAgentCalls, ok \in BOOLEAN, e \in StartErrors : StartSettles(i, ok, e, <<>>)
    \/ CallInitTimeoutFires
    \/ ResetTimerFires
    \/ Advance(AgentTickMs, MaxAgentTime)

SpecOptimized == InitOptimized /\ [][NextOptimized]_vars

\* the line handleCall's catch logs is among the lines of the last step
HandleCallCatchRan ==
    \E k \in 1..Len(out) : Len(out[k]) > 0 /\ out[k][1] = "Error starting Vapi call:"

FailureReachesGuard ==
    \/ lastCall'.kind \in {"throws", "rejects", "timeout"}
    \/ \E i \in 1..Len(calls) : calls[i].under = "pending" /\ calls'[i].under = "rejected"

\* C23: every failure that reaches a guard (a rejection or throw of a wrapped
\* call, a cleanup failure, the late settlement of the losing branch of a
\* timeout race) is logged before it is suppressed or re-raised: the step that
\* delivers it writes at least one console.error line.
C23_EveryFailureLogged ==
    [][FailureReachesGuard => out' # <<>>]_vars

\* ------------------------------------------ claims on the cleanup of a start
\* the line the catch around the cleanup logs for cleanupError
CleanupLogLine(cleanupError) == <<"Error during cleanup:">> \o ErrorToString(cleanupError)

CleanupFailureLogged == \E k \in 1..Len(out) : Len(out[k]) > 0 /\ out[k][1] = "Error during cleanup:"

\* C24: when the wrapped start times out and the cleanup call stop() itself
\* throws, the cleanup error is logged and not propagated: the caller receives
\* the original timeout failure.
C24_CleanupFailureNotPropagated ==
    [][\A s \in Scripts :
          (s # <<>> /\ StartTimeoutFires(s) /\ lastCall'.kind = "timeout") =>
              /\ \E k \in 1..Len(out') : out'[k] = CleanupLogLine(s[1].err)
              /\ lastCall'.outcome = "rejected"
              /\ lastCall'.got = ErrStartTimedOut]_vars

\* the start timed out, stop() threw in the cleanup and that was logged
C24_Witness ==
    /\ lastCall.kind = "timeout"
    /\ CleanupFailureLogged

\* ---------------------------------------------- claims on the sign-in stages
\* the deadline of the stage the flow of attempt a is waiting in
StageDeadline(a) ==
    CASE a.stage = "auth" -> a.startedAt + timeouts.firebase
      [] a.stage = "token" -> a.authAt + timeouts.token
      [] a.stage = "server" -> a.tokenAt + timeouts.server
      [] OTHER -> now

\* C25: the sign-in flow bounds each stage by its own deadline (the provider
\* handshake by timeouts.firebase, the token retrieval by timeouts.token, the
\* server verification by timeouts.server): no attempt is still waiting in a
\* stage after that stage's deadline unless a timeout has ended the attempt.
C25_EachStageHasItsDeadline ==
    \A i \in 1..Len(attempts) :
        (attempts[i].stage # "done" /\ ~attempts[i].byTimer) => now <= StageDeadline(attempts[i])

\* the four kinds of deadline getTimeouts returns
TimeoutKinds == {"firebase", "token", "server", "internal"}

\* the delay a pending timer of the sign-in flow was armed with
ArmedDelay(t) == t.due - attempts[t.call].startedAt

\* C26: for each of the four kinds of deadline (firebase, token, server,
\* internal) the production value of getTimeouts is strictly smaller than the
\* development value, and so is every delay a production sign-in arms a timer
\* with.
C26_ProductionDeadlinesShorter ==
    /\ \A k \in TimeoutKinds : getTimeouts(TRUE)[k] < getTimeouts(FALSE)[k]
    /\ \A j \in 1..Len(timers) :
          (isProduction /\ timers[j].kind = "abort") =>
              ArmedDelay(timers[j]) < getTimeouts(FALSE).firebase
    /\ \A j \in 1..Len(timers) :
          (isProduction /\ timers[j].kind = "global") =>
              ArmedDelay(timers[j]) < getTimeouts(FALSE).server

\* a production sign-in has armed both of its timers
C26_Witness ==
    /\ isProduction
    /\ \E j \in 1..Len(timers) : timers[j].kind = "abort" /\ ArmedDelay(timers[j]) = timeouts.firebase
    /\ \E j \in 1..Len(timers) : timers[j].kind = "global" /\ ArmedDelay(timers[j]) = timeouts.server

\* ------------------------------------------- claims on the completion effect
\* C27: for one finished interview whose type is not 'generate', createFeedback
\* is invoked at most once, whatever events arrive after the status became
\* FINISHED.
C27_FeedbackCreatedAtMostOnce ==
    agentType # "generate" => Len(feedbackCalls) <= 1

StartFailedNow(i) ==
    /\ i \in 1..Len(calls')
    /\ calls'[i].result = "false"
    /\ (i > Len(calls) \/ calls[i].result = "pending")

ErrSignUpTimedOut == AuthError("Error", "", <<"Authentication timed out">>)
ErrEmailInUse == FirebaseError("auth/email-already-in-use", "email-already-in-use")

\* what createUserWithEmailAndPassword and signUp are made to reject with
SignUpErrors == {ErrEmailInUse, ErrNetworkFailed, ErrNull}

SignUpTimer(due, i) == [kind |-> "signUp", due |-> due, call |-> i]

\* an onSubmit invocation of a sign-up form, at its first await
NewSignUp ==
    [stage |-> "create", startedAt |-> now, byTimer |-> FALSE,
     createPending |-> TRUE, authOk |-> FALSE, createdAt |-> 0 - 1,
     signUpCalls |-> 0, fallbacks |-> 0, effects |-> <<>>, escaped |-> FALSE]

\* a flow that goes on with whatever settles, whenever it settles
RaceOpenAlways(a) == TRUE

\* Promise.race([authPromise, timeoutPromise]) is still unsettled: the flow of
\* attempt a is suspended at it
RaceOpen(a) == a.stage = "create"

\* The catch of the sign-up try; a rejection with null makes error.message
\* throw, which the outer catch receives.
SignUpCatch(error) ==
    IF ~error.truthy
    THEN LET o == OuterCatch(TypeErrorOfNull)
         IN [effects |-> <<Effect("call", "console.error", "Sign-up error:")>> \o o.effects,
             escapes |-> o.escapes]
    ELSE [effects |-> <<Effect("call", "console.error", "Sign-up error:"),
                        Effect("call", "toast.error",
                               IF error.message = <<"Authentication timed out">>
                               THEN "Authentication timed out. Please try again later."
                               ELSE "Sign-up error")>>,
          escapes |-> FALSE]

\* finally: timeoutIds.forEach((id) => clearTimeout(id))
WithoutSignUpTimer(ts, i) == SelectSeq(ts, LAMBDA t : ~(t.kind = "signUp" /\ t.call = i))

\* the end of the sign-up invocation a whose try failed with error: catch,
\* finally
SignUpFails(ts, i, a, error, timedOut) ==
    LET c == SignUpCatch(error)
    IN /\ attempts' = [attempts EXCEPT ![i] =
              [a EXCEPT !.stage = "done",
                        !.byTimer = timedOut,
                        !.effects = @ \o c.effects,
                        !.escaped = c.escapes]]
       /\ timers' = WithoutSignUpTimer(ts, i)
       /\ isSubmitting' = FALSE

\* onSubmit of a sign-up form, up to its first await
SubmitSignUp ==
    /\ ~isSubmitting
    /\ Len(attempts) < MaxSubmits
    /\ isSubmitting' = TRUE
    /\ attempts' = Append(attempts, NewSignUp)
    /\ timers' = Append(timers, SignUpTimer(now + timeouts.firebase, Len(attempts) + 1))
    /\ out' = <<>>
    /\ UNCHANGED <<storage, now>>
    /\ AuthFrame

\* createUserWithEmailAndPassword settles
CreateUserSettles(i, ok, error) ==
    /\ i \in 1..Len(attempts)
    /\ attempts[i].createPending
    /\ LET a == [attempts[i] EXCEPT !.createPending = FALSE, !.createdAt = now]
       IN IF ~RaceOpen(attempts[i])
          THEN /\ attempts' = [attempts EXCEPT ![i] = a]
               /\ UNCHANGED <<timers, isSubmitting>>
          ELSE IF ok
          THEN /\ attempts' = [attempts EXCEPT ![i] =
                      [a EXCEPT !.stage = "signUp", !.authOk = TRUE, !.signUpCalls = @ + 1]]
               /\ UNCHANGED <<timers, isSubmitting>>
          ELSE /\ SignUpFails(timers, i, a, error, FALSE)
    /\ out' = <<>>
    /\ UNCHANGED <<storage, now>>
    /\ AuthFrame

\* the timer armed with timeouts.firebase runs: reject(new Error(...))
SignUpTimerFires ==
    /\ DueTimers # {}
    /\ timers[NextTimer].kind = "signUp"
    /\ LET i == timers[NextTimer].call
       IN IF RaceOpen(attempts[i])
          THEN SignUpFails(RemoveAt(timers, NextTimer), i, attempts[i], ErrSignUpTimedOut, TRUE)
          ELSE /\ timers' = RemoveAt(timers, NextTimer)
               /\ UNCHANGED <<attempts, isSubmitting>>
    /\ out' = <<>>
    /\ UNCHANGED <<storage, now>>
    /\ AuthFrame

\* the signUp server action settles: { success: true }, { success: false,
\* message }, or a rejection
SignUpSettles(i, result, error) ==
    /\ i \in 1..Len(attempts)
    /\ attempts[i].stage = "signUp"
    /\ IF result = "rejects"
       THEN SignUpFails(timers, i, attempts[i], error, FALSE)
       ELSE /\ attempts' = [attempts EXCEPT ![i] =
                   [@ EXCEPT !.stage = "done",
                             !.effects = @ \o
                                 IF result = "success"
                                 THEN <<Effect("call", "toast.success", "Account created successfully. Please sign in."),
                                        Effect("call", "push", "/sign-in")>>
                                 ELSE <<Effect("call", "toast.error", "result.message")>>]]
            /\ timers' = WithoutSignUpTimer(timers, i)
            /\ isSubmitting' = FALSE
    /\ out' = <<>>
    /\ UNCHANGED <<storage, now>>
    /\ AuthFrame

\* time passes for a sign-up while its account creation or its server action
\* is pending
SignUpAdvance ==
    /\ DueTimers = {}
    /\ \E i \in 1..Len(attempts) : attempts[i].createPending \/ attempts[i].stage # "done"
    /\ LET t == IF timers # <<>> /\ NextDue < now + AuthTickMs THEN NextDue ELSE now + AuthTickMs
       IN t <= MaxAuthTime /\ now' = t
    /\ out' = <<>>
    /\ UNCHANGED <<timers, isSubmitting, attempts, storage>>
    /\ AuthFrame

NextSignUp ==
    \/ SubmitSignUp
    \/ \E i \in 1..MaxSubmits, ok \in BOOLEAN, e \in SignUpErrors : CreateUserSettles(i, ok, e)
    \/ \E i \in 1..MaxSubmits, r \in {"success", "failure", "rejects"}, e \in SignUpErrors :
          SignUpSettles(i, r, e)
    \/ SignUpTimerFires
    \/ SignUpAdvance

SpecSignUp == InitSignIn /\ [][NextSignUp]_vars

\* account creation of attempt a did not settle within timeouts.firebase
CreationMissedDeadline(a) ==
    \/ a.createPending /\ now > a.startedAt + timeouts.firebase
    \/ ~a.createPending /\ a.createdAt > a.startedAt + timeouts.firebase

\* C30: in sign-up, if account creation does not settle within
\* timeouts.firebase, the user gets the timeout error, the signUp server action
\* is not called, no fallback credential is written and no navigation happens;
\* signUp is called only after account creation resolved within the deadline,
\* and then exactly once.
C30_SignUpTimeoutEndsAttempt ==
    \A i \in 1..Len(attempts) :
        LET a == attempts[i]
        IN /\ CreationMissedDeadline(a) =>
                  /\ a.byTimer /\ a.stage = "done"
                  /\ \E k \in 1..Len(a.effects) :
                         /\ a.effects[k].kind = "toast.error"
                         /\ a.effects[k].arg = "Authentication timed out. Please try again later."
                  /\ a.signUpCalls = 0
                  /\ storage = NoItem /\ a.fallbacks = 0
                  /\ EffectsOfKind(a, {"push", "fallback"}) = {}
                  /\ ~a.escaped
           /\ a.signUpCalls <= 1
           /\ a.signUpCalls = 1 =>
                  /\ a.authOk /\ ~a.byTimer
                  /\ a.createdAt <= a.startedAt + timeouts.firebase
           /\ (a.authOk /\ a.createdAt <= a.startedAt + timeouts.firebase /\ ~a.byTimer)
                  => a.signUpCalls = 1

\* the timer has won the race and account creation resolved afterwards
C30_Witness ==
    \E i \in 1..Len(attempts) :
        /\ attempts[i].byTimer
        /\ ~attempts[i].createPending
        /\ attempts[i].createdAt > attempts[i].startedAt + timeouts.firebase
        /\ attempts[i].signUpCalls = 0

\* ------------------------------------------- the window's events and Agent
\* what an 'unhandledrejection' or 'error' event can carry
EventErrors == GuardErrors \cup {NullError}

\* a mounted Agent whose window receives events of every kind
NextEvents ==
    \/ \E b \in {"pending", "throws"}, e \in StartErrors :
          OnGrid /\ Len(calls) < MaxSessions /\ AgentHandleCall(b, e, <<>>)
    \/ \E i \in 1..MaxSessions, ok \in BOOLEAN, e \in StartErrors :
          OnGrid /\ StartSettles(i, ok, e, <<>>)
    \/ \E i \in 1..MaxSessions : SdkCallStart(i)
    \/ \E e \in EventErrors, s \in Scripts : AgentWindowError(e, s)
    \/ \E e \in EventErrors, s \in Scripts :
          OnGrid /\ routes = <<>> /\ GlobalEvent("unhandledrejection", e, s)
    \/ CallInitTimeoutFires
    \/ ResetTimerFires
    \/ FeedbackTimerFires
    \/ AgentAdvance

SpecEvents == InitAgent /\ [][NextEvents]_vars

\* C31: the global 'unhandledrejection' and 'error' listeners (the guard's and
\* Agent's) suppress an event exactly when its error is classified as a
\* terminal-session error; every other event is left untouched and causes no
\* stop() call, no broadcast and no change of status.
C31_SuppressExactlyTerminal ==
    [][\A e \in EventErrors, s \in Scripts :
          (AgentWindowError(e, s) \/ GlobalEvent("unhandledrejection", e, s)) =>
              /\ prevented' = IsMeetingEndedError(e)
              /\ ~IsMeetingEndedError(e) =>
                     /\ invalidations' = invalidations
                     /\ broadcasts' = broadcasts
                     /\ callStatus' = callStatus
                     /\ messages' = messages
                     /\ handle' = handle /\ timers' = timers]_vars

\* a terminal 'error' event was suppressed while a call was being set up, and
\* the guard stopped the instance
C31_Witness ==
    /\ prevented
    /\ "error" \in seen
    /\ invalidations > 0
    /\ callStatus = "FINISHED"

\* ------------------------------------------- where a start of a call ends
\* either component, mounted after one evaluation of the guard module
InitConnect ==
    /\ \E t \in BOOLEAN : InitEvaluated(t)
    /\ InitIdleCall /\ InitIdleClass /\ InitIdleAuth
    /\ tokenSet = TRUE
    /\ component \in {"Agent", "OptimizedAgent"}
    /\ credentials = AllCredentials
    /\ admin = AdminNotLoaded
    /\ clip = ClipUnmounted(BrowserEnv)

\* one press of the Call button, early enough for all of its timers to run
\* within MaxCallTime, and everything that can follow it
NextConnect ==
    \/ \E b \in {"pending", "throws"}, e \in StartErrors :
          /\ Len(calls) < MaxCalls
          /\ now + StartTimeoutMs <= MaxCallTime
          /\ AgentHandleCall(b, e, <<>>)
    \/ OptimizedHandleCallReloads
    \/ \E i \in 1..MaxCalls, ok \in BOOLEAN, e \in StartErrors : StartSettles(i, ok, e, <<>>)
    \/ \E i \in 1..MaxCalls : SdkCallStart(i)
    \/ StartTimeoutFires(<<>>)
    \/ CallInitTimeoutFires
    \/ ResetTimerFires
    \/ Advance(CallTickMs, MaxCallTime)

\* timers run when they are due, time passes, and a session that stays open
\* emits 'call-start'
FairConnect ==
    /\ WF_vars(Advance(CallTickMs, MaxCallTime))
    /\ WF_vars(StartTimeoutFires(<<>>))
    /\ WF_vars(CallInitTimeoutFires)
    /\ WF_vars(ResetTimerFires)
    /\ WF_vars(\E i \in 1..MaxCalls : SdkCallStart(i))

SpecConnect == InitConnect /\ [][NextConnect]_vars /\ FairConnect

\* C32: after every invocation of handleCall, in Agent and in OptimizedAgent,
\* also when the voice handle is the no-op stand-in or absent, the status
\* eventually leaves CONNECTING and becomes ACTIVE, ERROR or FINISHED. (A page
\* that OptimizedAgent reloads is counted as having left: its state is gone.)
C32_ConnectingEventuallyLeft ==
    (callStatus = "CONNECTING" /\ routes = <<>>) ~>
        (callStatus \in {"ACTIVE", "ERROR", "FINISHED"} \/ routes # <<>>)

\* ------------------------------------------------ the chain of the handler
RECURSIVE ChainBound(_, _)
\* How often one call of the handler can enter the handler when stop() fails n
\* times and console.error is wrapped d times: the entry itself, and for each
\* failure the wrapper's console.error and the handler's own, either of which
\* the d layers of the hook hand back to the handler.
ChainBound(n, d) == IF n = 0 THEN 1 ELSE 1 + 2 * d * ChainBound(n - 1, d)

InFlight(a) == a.stage # "done"

\* C34: at most one authentication submission is in flight at a time: while an
\* onSubmit invocation has not finished (including after its deadline timer
\* fired) the flag that makes a second onSubmit return immediately is set.
C34_OneSubmissionInFlight ==
    /\ Cardinality({i \in 1..Len(attempts) : InFlight(attempts[i])}) <= 1
    /\ (\E i \in 1..Len(attempts) : InFlight(attempts[i])) => isSubmitting

\* C35: when an onSubmit invocation returns, on every path, isSubmitting is
\* false and no timer created by that invocation is still pending, so no
\* fallback credential is written after a completed sign-in.
C35_ReturnLeavesNothingPending ==
    [][\A i \in 1..Len(attempts') :
          /\ (~InFlight(attempts'[i]) /\ (i > Len(attempts) \/ InFlight(attempts[i]))) =>
                 /\ isSubmitting' = FALSE
                 /\ \A k \in 1..Len(timers') : timers'[k].call # i
          /\ (i <= Len(attempts) /\ ~InFlight(attempts[i])) =>
                 /\ attempts'[i].fallbacks = attempts[i].fallbacks
                 /\ attempts'[i].effects = attempts[i].effects]_vars

\* an invocation has returned while its deadline timer had not run yet
C35_Witness ==
    \E i \in 1..Len(attempts) :
        /\ ~InFlight(attempts[i])
        /\ ~attempts[i].byTimer
        /\ now < attempts[i].startedAt + timeouts.server
        /\ timers = <<>> /\ ~isSubmitting

\* -------------------------------------------------- the delayed reset
\* C36: a delayed reset of the voice handle only ever clears the instance whose
\* termination scheduled it: the handle a reset timer clears is never a live
\* instance, one constructed after that termination.
C36_ResetClearsOnlyTerminated ==
    [][ResetTimerFires => (handle.kind = "absent" \/ handle.id \notin live)]_vars

\* ------------------------------------------- OptimizedAgent and the events
\* a mounted OptimizedAgent, one session and the events that can end it
NextOptimizedEvents ==
    \/ \E b \in {"pending", "throws"}, e \in StartErrors :
          OnGrid /\ Len(calls) < MaxSessions /\ AgentHandleCall(b, e, <<>>)
    \/ \E i \in 1..MaxSessions, ok \in BOOLEAN, e \in StartErrors :
          OnGrid /\ StartSettles(i, ok, e, <<>>)
    \/ \E i \in 1..MaxSessions : SdkCallStart(i)
    \/ \E i \in 1..MaxSessions, e \in StartErrors, s \in Scripts : SdkError(i, e, s)
    \/ \E e \in StartErrors : AgentWindowError(e, <<>>)
    \/ CallInitTimeoutFires
    \/ ResetTimerFires
    \/ FeedbackTimerFires
    \/ AgentAdvance

SpecOptimizedEvents == InitOptimized /\ [][NextOptimizedEvents]_vars

\* how often the transcript ms holds the session-ended system message
EndedMessages(ms) == Cardinality({k \in 1..Len(ms) : ms[k] = SystemMessage("session ended")})

\* C37: in OptimizedAgent one logical session termination appends the system
\* message 'The interview session has ended. Your responses have been saved.'
\* to the transcript at most once, whichever of the voice 'error' event and the
\* 'vapi:meeting-ended' broadcast arrive and in whatever order.
C37_EndedMessageAtMostOnce ==
    [][\A i \in 1..MaxSessions, e \in StartErrors, s \in Scripts :
          (component = "OptimizedAgent" /\ SdkError(i, e, s)) =>
              EndedMessages(messages') - EndedMessages(messages) <= 1]_vars

\* C38: evaluating the guard module a second time is idempotent for the global
\* hooks: the numbers of 'unhandledrejection'/'error' listeners and of
\* 'vapi:meeting-ended' listeners and the wrapping depth of console.error stay
\* what they were after the first evaluation.
C38_SecondEvaluationIdempotent ==
    [][\A t \in BOOLEAN :
          (handlerInstalled /\ EvaluateModule(t)) =>
              /\ consoleDepth' = consoleDepth
              /\ globalListeners' = globalListeners
              /\ meetingEndedListeners' = meetingEndedListeners]_vars

\* C39: whenever the server-side credentials are missing, initFirebaseAdmin
\* returns usingMock = true together with the mock auth and db, on the first
\* call and on every later call in the same process; usingMock is false only
\* when the returned services are the real ones backed by credentials.
C39_MissingCredentialsAlwaysMock ==
    (admin.loaded = "part_001" /\ ~admin.threw) =>
        /\ ~hasCredentials => (admin.usingMock /\ admin.auth = "mock" /\ admin.db = "mock")
        /\ ~admin.usingMock => (hasCredentials /\ admin.auth = "real" /\ admin.db = "real")

\* ------------------------------------------- copyToClipboard and CopyButton
MaxCopies == 2
ClipTickMs == 1000
MaxClipTime == 4000
SelectDelayMs == 100
CopiedResetMs == 2000

ClipEnvs == [window : BOOLEAN, navigator : BOOLEAN, clipboard : {"absent", "noWriteText", "present"}]
ExecOutcomes == {"true", "false", "throws"}

\* typeof navigator !== "undefined" && navigator.clipboard &&
\* typeof navigator.clipboard.writeText === "function"
ClipboardApi(env) == env.navigator /\ env.clipboard = "present"
isClipboardAvailable(env) == ClipboardApi(env)

\* one invocation of copyToClipboard: who called, where it stands, how its
\* promise settled and with what value, and what writeText and execCommand did
NewCopyCall(by) ==
    [by |-> by, stage |-> "running", settled |-> "pending", value |-> FALSE,
     write |-> "none", exec |-> "none", log |-> <<>>]

CopyReturns(c, value) == [c EXCEPT !.stage = "returned", !.settled = "resolved", !.value = value]

\* the fallback try block: a textarea, select, document.execCommand("copy")
ExecCommandFallback(c, exec) ==
    IF exec = "throws"
    THEN CopyReturns([c EXCEPT !.exec = exec, !.log = Append(@, "execCommand fallback failed:")], FALSE)
    ELSE CopyReturns([c EXCEPT !.exec = exec], exec = "true")

\* (what the catch of the write would be if it returned without the fallback)
AfterWriteFailsGivesUp(c, exec) ==
    CopyReturns([c EXCEPT !.log = Append(@, "Clipboard API failed:")], FALSE)

\* catch (clipboardError): a warning, then on to the fallback
AfterWriteFails(c, exec) ==
    ExecCommandFallback([c EXCEPT !.log = Append(@, "Clipboard API failed:")], exec)

\* copyToClipboard up to its await: write is "throws" when writeText throws
\* synchronously, "pending" when it returns a promise
copyToClipboardStart(env, by, write, exec) ==
    LET c == NewCopyCall(by)
    IN IF ~env.window THEN CopyReturns(c, FALSE)
       ELSE IF ClipboardApi(env)
       THEN IF write = "throws" THEN AfterWriteFails([c EXCEPT !.write = "throws"], exec)
            ELSE [c EXCEPT !.stage = "writing"]
       ELSE ExecCommandFallback(c, exec)

\* copyToClipboard after its await
copyToClipboardResume(c, write, exec) ==
    IF write = "resolves" THEN CopyReturns([c EXCEPT !.write = "resolves"], TRUE)
    ELSE AfterWriteFails([c EXCEPT !.write = "rejects"], exec)

ClipTimer(kind, due) == [kind |-> kind, due |-> due, call |-> 0]
ClipTimerKinds == {"select", "lastResort", "uncopy"}

\* handleCopy after 'await copyToClipboard(text)' (nothing for another caller)
AfterCopy(cl, i, ts) ==
    LET c == cl.calls[i]
    IN IF c.by # "button" THEN [clip |-> cl, timers |-> ts]
       ELSE IF c.settled = "rejected"
       THEN [clip |-> [cl EXCEPT !.showFallback = TRUE, !.log = Append(@, "Failed to copy:")],
             timers |-> Append(ts, ClipTimer("select", now + SelectDelayMs))]
       ELSE IF c.value
       THEN [clip |-> [cl EXCEPT !.copied = TRUE],
             timers |-> Append(ts, ClipTimer("uncopy", now + CopiedResetMs))]
       ELSE [clip |-> [cl EXCEPT !.showFallback = TRUE],
             timers |-> Append(ts, ClipTimer("lastResort", now + SelectDelayMs))]

ClipFrame == UNCHANGED <<guardVars, out, callVars, classVars, authVars, envVars, adminVars>>

\* CopyButton mounts in the browser; its effect records isClipboardAvailable()
CopyButtonMounts ==
    /\ clip.env.window
    /\ ~clip.mounted
    /\ clip' = [clip EXCEPT !.mounted = TRUE,
                            !.clipboardSupported = isClipboardAvailable(clip.env)]
    /\ UNCHANGED <<timers, now>>
    /\ ClipFrame

\* handleCopy: a click on the button
HandleCopy(write, exec) ==
    /\ clip.mounted
    /\ clip.clicks < MaxCopies
    /\ Len(clip.calls) < MaxCopies
    /\ IF ~clip.clipboardSupported
       THEN /\ clip' = [clip EXCEPT !.clicks = @ + 1, !.showFallback = TRUE]
            /\ timers' = Append(timers, ClipTimer("select", now + SelectDelayMs))
       ELSE LET c == copyToClipboardStart(clip.env, "button", write, exec)
                cl == [clip EXCEPT !.clicks = @ + 1, !.calls = Append(@, c)]
                r == IF c.stage = "returned" THEN AfterCopy(cl, Len(cl.calls), timers)
                     ELSE [clip |-> cl, timers |-> timers]
            IN clip' = r.clip /\ timers' = r.timers
    /\ UNCHANGED now
    /\ ClipFrame

\* code other than CopyButton calls the exported copyToClipboard, in the
\* browser or on the server
CopyToClipboardCalled(write, exec) ==
    /\ Len(clip.calls) < MaxCopies
    /\ clip' = [clip EXCEPT !.calls = Append(@, copyToClipboardStart(clip.env, "caller", write, exec))]
    /\ UNCHANGED <<timers, now>>
    /\ ClipFrame

\* the promise of navigator.clipboard.writeText settles
WriteTextSettles(i, write, exec) ==
    /\ i \in 1..Len(clip.calls)
    /\ clip.calls[i].stage = "writing"
    /\ LET cl == [clip EXCEPT !.calls[i] = copyToClipboardResume(@, write, exec)]
           r == AfterCopy(cl, i, timers)
       IN clip' = r.clip /\ timers' = r.timers
    /\ UNCHANGED now
    /\ ClipFrame

\* a timer of CopyButton runs
ClipTimerFires(exec) ==
    /\ DueTimers # {}
    /\ timers[NextTimer].kind \in ClipTimerKinds
    /\ LET kind == timers[NextTimer].kind
           rest == RemoveAt(timers, NextTimer)
       IN IF kind = "uncopy"
          THEN clip' = [clip EXCEPT !.copied = FALSE] /\ timers' = rest
          ELSE IF kind = "lastResort" /\ clip.showFallback
          THEN IF exec = "throws"
               THEN clip' = [clip EXCEPT !.log = Append(@, "execCommand failed:")] /\ timers' = rest
               ELSE /\ clip' = [clip EXCEPT !.copied = TRUE]
                    /\ timers' = Append(rest, ClipTimer("uncopy", now + CopiedResetMs))
          ELSE clip' = clip /\ timers' = rest
    /\ UNCHANGED now
    /\ ClipFrame

\* the Close button of the manual-copy box
CloseFallback ==
    /\ clip.showFallback
    /\ clip' = [clip EXCEPT !.showFallback = FALSE]
    /\ UNCHANGED <<timers, now>>
    /\ ClipFrame

ClipAdvance == Advance(ClipTickMs, MaxClipTime)

InitCopy ==
    /\ InitGuard /\ InitIdleCall /\ InitIdleClass /\ InitIdleAuth
    /\ tokenSet = TRUE
    /\ component = "Agent"
    /\ credentials = AllCredentials
    /\ admin = AdminNotLoaded
    /\ clip \in {ClipUnmounted(env) : env \in ClipEnvs}

NextCopy ==
    \/ CopyButtonMounts
    \/ \E w \in {"pending", "throws"}, x \in ExecOutcomes : HandleCopy(w, x)
    \/ \E w \in {"pending", "throws"}, x \in ExecOutcomes : CopyToClipboardCalled(w, x)
    \/ \E i \in 1..MaxCopies, w \in {"resolves", "rejects"}, x \in ExecOutcomes : WriteTextSettles(i, w, x)
    \/ \E x \in ExecOutcomes : ClipTimerFires(x)
    \/ CloseFallback
    \/ ClipAdvance

SpecCopy == InitCopy /\ [][NextCopy]_vars

\* C40: copyToClipboard never rejects and returns a boolean: false outside a
\* browser; true if the Clipboard API write succeeds; if the Clipboard API is
\* missing or its write fails, it falls back to execCommand('copy') and returns
\* that result, or false if the fallback throws.
C40_CopyNeverRejects ==
    \A i \in 1..Len(clip.calls) :
        LET c == clip.calls[i]
            env == clip.env
        IN /\ c.settled # "rejected"
           /\ c.stage = "returned" =>
                /\ c.settled = "resolved"
                /\ c.value \in BOOLEAN
                /\ ~env.window => (~c.value /\ c.write = "none" /\ c.exec = "none")
                /\ (env.window /\ c.write = "resolves") => c.value
                /\ (env.window /\ (~ClipboardApi(env) \/ c.write \in {"rejects", "throws"})) =>
                       /\ c.exec \in ExecOutcomes
                       /\ c.value = (c.exec = "true")

\* a write that was rejected, the fallback copied, and CopyButton shows "Copied!"
C40_Witness ==
    /\ clip.copied
    /\ \E i \in 1..Len(clip.calls) :
          /\ clip.calls[i].by = "button"
          /\ clip.calls[i].write = "rejects"
          /\ clip.calls[i].exec = "true"
          /\ clip.calls[i].value

====
